---------------------------- MODULE Spec2Model ----------------------------
(***************************************************************************)
(* A model of the experience cache, eviction, window sampler, persistence  *)
(* bridge, simulation driver and lambda-return of src/tools.py.            *)
(*                                                                         *)
(* Python dicts (insertion ordered) are association lists: sequences of    *)
(* <<key, value>> pairs.  A numpy value is a record [dt, v]: its dtype and  *)
(* its number.  A field history is a container [kind, items]: a Python     *)
(* list (written by the driver) or a numpy array (read from an archive).   *)
(***************************************************************************)
EXTENDS Integers, Sequences, FiniteSets, TLC

VARIABLES
    cache,      \* OrderedDict: episode id -> episode (dict: field -> container)
    inserted,   \* per id: add_to_cache calls made since the entry was created
    op,         \* the operation that ran last
    arg,        \* the argument of the operation that ran last
    before,     \* the cache as it was when the last operation started
    result,     \* the value the last operation returned
    err,        \* the exception the last operation raised, "none" otherwise
    calls,      \* number of operations run so far (bounded)
    sample_length, \* sample_episodes: the length argument
    ret,        \* sample_episodes: the window under construction (<<>>: None)
    size,       \* sample_episodes: steps gathered so far
    spc,        \* sample_episodes: where the generator stands
    marks,      \* positions of the window where a slice of an episode starts
    slices,     \* the slices of the window: <<episode, start index, frames>>, in draw order
    yielded,    \* number of windows yielded so far (bounded)
    directory,  \* the archive files: name <<id, length>> -> content
    loaded,     \* the OrderedDict load_episodes returned last
    written,    \* the episodes save_episodes was given: [id, episode]
    reward,     \* lambda_return: reward[t][b]
    value,      \* lambda_return: value[t][b]
    pcont,      \* lambda_return: pcont[t][b]
    bootstrap,  \* lambda_return: bootstrap[b], or None
    lambda_,    \* lambda_return: the mixing weight, a rational
    axis,       \* lambda_return: the time axis of the arguments
    returns,    \* lambda_return: the value returned, returns[b][t]
    lpc,        \* lambda_return: "input", "returned" or "raised"
    steps,      \* simulate: the step budget argument `steps` (0: none)
    episode_budget, \* simulate: the episode budget argument `episodes` (0: none)
    dataset_limit,  \* simulate: the argument `limit` handed to erase_over_episodes
    is_eval,    \* simulate: evaluation mode
    step,       \* simulation state `step`: environment steps taken
    episode_count,  \* simulation state `episode`: episodes completed
    done,       \* simulation state `done`: done flag of each slot
    episode_length, \* simulation state `length`: the episode-length component
    obs,        \* simulation state `obs`: last observation of each slot
    agent_state, \* simulation state `agent_state`: calls of the agent so far
    last_reward, \* simulation state `reward`: last reward of each slot
    env_id,     \* envs[i].id
    used,       \* the ids the environments have handed out
    eval,       \* simulate locals: eval_lengths, eval_done and the summary count
    runs,       \* number of simulate calls made so far (bounded)
    dpc,        \* simulate: where the driver stands
    step0,      \* the `step` the current call started from
    ticks,      \* loop iterations of the current call
    executed,   \* environment steps taken by each slot, over all calls
    since,      \* per slot: steps taken since the slot was last reset
    newest,     \* the id of the cache entry created last (0: none)
    episode_counter, \* simulate_multi local: episodes since the last curriculum update
    total_reward,    \* simulate_multi local: reward since the last curriculum update
    curriculum, \* per slot: what envs[i].get_curriculum_values() returns
    limits,     \* per slot: map_limit, num_obstacles_limit, ... of envs[i]
    new_episode_length, \* simulate_multi local of that name (<<>>: unbound)
    fired,      \* whether the last tick entered the curriculum update
    updates,    \* curriculum updates completed in the current call
    phases,     \* the environment calls of the last tick, in order
    checked,    \* per slot updated last: the curriculum_coords_check call and its answer
    period,     \* the scripted environment reports done on every period-th step
    processed,  \* the saves and evictions of the last tick: <<call, slot>>, in order
    every,      \* Every: self._every
    last_,      \* Every: self._last (<<>>: None)
    history     \* Every: per call made, the step passed, the count returned and _last after it

cacheVars == <<cache, inserted, op, arg, before, result, err, calls>>
samplerVars == <<sample_length, ret, size, spc, marks, slices, yielded>>
persistVars == <<directory, loaded, written>>
returnVars == <<reward, value, pcont, bootstrap, lambda_, axis, returns, lpc>>
multiVars == <<episode_counter, total_reward, curriculum, limits, new_episode_length,
               fired, updates, phases, checked>>
driverVars == <<steps, episode_budget, dataset_limit, is_eval, step, episode_count, done,
                episode_length, obs, agent_state, last_reward, env_id, used, eval, runs,
                dpc, step0, ticks, executed, since, newest, period, processed,
                multiVars>>
everyVars == <<every, last_, history>>
vars == <<cacheVars, samplerVars, persistVars, returnVars, driverVars, everyVars>>

---------------------------------------------------------------------------
(* Bounds of the model *)

MaxCalls == 6
MaxInserts == 4
MaxBudget == 2
MaxEpisodes == 2
MaxEpLen == 3
MaxWindow == 4
MaxYields == 2
MaxPersistCalls == 5
MaxT == 2
MaxIds == 3
MaxSteps == 4
MaxLimit == 1
MaxRuns == 2
MaxSlots == 2
MaxResumeSteps == 3
MaxScenarioSteps == 10
MaxPeriod == 3
MaxScenarioBudget == 4
MaxMultiSteps == 6
MaxIsaacSteps == 4
MaxValue == 3
MaxConverts == 2
MaxEvery == 3
MaxEveryStep == 6
MaxEveryCalls == 4
MaxBudgetSteps == 3
MaxBudgetEpisodes == 2
MaxBudgetTicks == 4
MaxRunAgentTicks == 3

---------------------------------------------------------------------------
(* Python dict as an association list *)

Keys(d) == {d[i][1] : i \in DOMAIN d}

Has(d, k) == \E i \in DOMAIN d : d[i][1] = k

IndexOf(d, k) == CHOOSE i \in DOMAIN d : d[i][1] = k

Get(d, k) == d[IndexOf(d, k)][2]

Put(d, k, v) ==
    IF Has(d, k) THEN [d EXCEPT ![IndexOf(d, k)] = <<k, v>>]
    ELSE Append(d, <<k, v>>)

Del(d, k) == SelectSeq(d, LAMBDA e : e[1] # k)

(* next(iter(d.values())): the value of the first key inserted *)
FirstValue(d) == d[1][2]

---------------------------------------------------------------------------
(* numpy values and containers *)

Val(dt, v) == [dt |-> dt, v |-> v]

PyList(items) == [kind |-> "list", items |-> items]

NpArray(items) == [kind |-> "array", items |-> items]

FloatTypes == {"float16", "float32", "float64"}
SignedTypes == {"int8", "int16", "int32", "int64"}

ConvertRaises(val) ==
    val.dt \notin FloatTypes \cup SignedTypes \cup {"uint8", "bool"}

(* a conversion that keeps the width of a signed integer *)
convertKeepingWidth(val) ==
    IF val.dt \in FloatTypes THEN Val("float32", val.v)
    ELSE val

(* astype changes the dtype; every number of the model lies inside the range
   of float32 and int32, so the number itself is kept *)
convert(val) ==
    IF val.dt \in FloatTypes THEN Val("float32", val.v)
    ELSE IF val.dt \in SignedTypes THEN Val("int32", val.v)
    ELSE val

(* 0 * val: the number becomes 0; a boolean is promoted to an integer *)
ZeroTimes(val) ==
    Val(IF val.dt = "bool" THEN "int64" ELSE val.dt, 0)

---------------------------------------------------------------------------
(* add_to_cache *)

(* cache[id][key] = [convert(val)] *)
SeedField(ep, key, val) == Put(ep, key, PyList(<<convert(val)>>))

(* the list a key that was never seen in this episode starts from *)
BackfillItems(val) == <<convert(ZeroTimes(val))>>

(* one key of a transition appended to an existing episode *)
AppendField(ep, key, val) ==
    IF ~Has(ep, key)
    THEN Put(ep, key, PyList(Append(BackfillItems(val), convert(val))))
    ELSE Put(ep, key, PyList(Append(Get(ep, key).items, convert(val))))

(* the for loop over transition.items(), from item i on; stops where
   convert raises or where append meets an array.  In
   cache[id][key].append(convert(val)) the attribute append is looked up
   before convert(val) is evaluated; for a key the episode does not have, the
   list [convert(0 * val)] is stored before convert(val) is evaluated *)
RECURSIVE AddFields(_, _, _, _)
AddFields(ep, transition, i, fresh) ==
    IF i > Len(transition) THEN [ep |-> ep, err |-> "none"]
    ELSE LET key == transition[i][1]
             val == transition[i][2]
         IN  IF fresh
             THEN IF ConvertRaises(val)
                  THEN [ep |-> ep, err |-> "NotImplementedError"]
                  ELSE AddFields(SeedField(ep, key, val), transition, i + 1, fresh)
             ELSE IF ~Has(ep, key)
             THEN IF ConvertRaises(ZeroTimes(val))
                  THEN [ep |-> ep, err |-> "NotImplementedError"]
                  ELSE IF ConvertRaises(val)
                  THEN [ep |-> Put(ep, key, PyList(BackfillItems(val))),
                        err |-> "NotImplementedError"]
                  ELSE AddFields(AppendField(ep, key, val), transition, i + 1, fresh)
             ELSE IF Get(ep, key).kind # "list"
             THEN [ep |-> ep, err |-> "AttributeError"]
             ELSE IF ConvertRaises(val)
             THEN [ep |-> ep, err |-> "NotImplementedError"]
             ELSE AddFields(AppendField(ep, key, val), transition, i + 1, fresh)

add_to_cache(c, id, transition) ==
    LET fresh == ~Has(c, id)
        ep0 == IF fresh THEN <<>> ELSE Get(c, id)
        r == AddFields(ep0, transition, 1, fresh)
    IN  [cache |-> Put(c, id, r.ep), err |-> r.err]

---------------------------------------------------------------------------
(* erase_over_episodes *)

None == <<>>
Some(n) == <<n>>

(* a truth test that takes a budget of 0 for a budget *)
TruthyUnlessNone(x) == x # None

(* Python truth value of an optional integer *)
Truthy(x) == x # None /\ x[1] # 0

RECURSIVE SortedDesc(_)
SortedDesc(S) ==
    IF S = {} THEN <<>>
    ELSE LET m == CHOOSE x \in S : \A y \in S : y <= x
         IN  <<m>> \o SortedDesc(S \ {m})

(* a count that takes the seed frame for a transition: len(ep["reward"]) *)
TransitionsWithSeed(ep) == Len(Get(ep, "reward").items)

(* len(ep["reward"]) - 1 *)
Transitions(ep) == Len(Get(ep, "reward").items) - 1

(* a test of the running total alone, before the episode is counted *)
EraseKeepsBeforeCounting(dataset_size, step_in_dataset, n) ==
    \/ ~Truthy(dataset_size)
    \/ step_in_dataset <= dataset_size[1]

(* the condition under which an episode is kept *)
EraseKeeps(dataset_size, step_in_dataset, n) ==
    \/ ~Truthy(dataset_size)
    \/ step_in_dataset + n <= dataset_size[1]

(* a loop that returns at its first eviction *)
RECURSIVE EraseLoopOneEviction(_, _, _, _, _)
EraseLoopOneEviction(c, order, i, dataset_size, step_in_dataset) ==
    IF i > Len(order)
    THEN [cache |-> c, ret |-> step_in_dataset, err |-> "none"]
    ELSE LET key == order[i]
             ep == Get(c, key)
         IN  IF ~Has(ep, "reward")
             THEN [cache |-> c, ret |-> step_in_dataset, err |-> "KeyError"]
             ELSE IF EraseKeeps(dataset_size, step_in_dataset, Transitions(ep))
             THEN EraseLoopOneEviction(c, order, i + 1, dataset_size,
                                       step_in_dataset + Transitions(ep))
             ELSE [cache |-> Del(c, key), ret |-> step_in_dataset, err |-> "none"]

(* the for loop over the snapshot reversed(sorted(cache.items())), from
   position i on *)
RECURSIVE EraseLoop(_, _, _, _, _)
EraseLoop(c, order, i, dataset_size, step_in_dataset) ==
    IF i > Len(order)
    THEN [cache |-> c, ret |-> step_in_dataset, err |-> "none"]
    ELSE LET key == order[i]
             ep == Get(c, key)
         IN  IF ~Has(ep, "reward")
             THEN [cache |-> c, ret |-> step_in_dataset, err |-> "KeyError"]
             ELSE IF EraseKeeps(dataset_size, step_in_dataset, Transitions(ep))
             THEN EraseLoop(c, order, i + 1, dataset_size,
                            step_in_dataset + Transitions(ep))
             ELSE EraseLoop(Del(c, key), order, i + 1, dataset_size,
                            step_in_dataset)

erase_over_episodes(c, dataset_size) ==
    EraseLoop(c, SortedDesc(Keys(c)), 1, dataset_size, 0)

---------------------------------------------------------------------------
(* The cache under arbitrary calls of add_to_cache and erase_over_episodes *)

Ids == 1 .. 3

ResetFrame == << <<"is_first", Val("bool", 1)>>, <<"reward", Val("float64", 0)>> >>

StepFrame ==
    << <<"is_first", Val("bool", 0)>>, <<"action", Val("int64", 2)>>,
       <<"reward", Val("float64", 1)>> >>

(* a step whose info carries a diagnostic field *)
LogFrame == Append(StepFrame, <<"log_success", Val("int64", 1)>>)

(* a transition without a reward *)
BareFrame == << <<"action", Val("int64", 2)>> >>

(* a step whose action has an element type convert does not handle *)
UnsupportedFrame ==
    << <<"is_first", Val("bool", 0)>>, <<"action", Val("uint16", 2)>>,
       <<"reward", Val("float64", 1)>> >>

(* transitions a caller may pass, keys in the order the driver builds them *)
TransitionSet == {ResetFrame, StepFrame, LogFrame, BareFrame, UnsupportedFrame}

(* the sampler has not been started *)
SamplerIdle ==
    /\ sample_length = 0
    /\ ret = <<>>
    /\ size = 0
    /\ spc = "idle"
    /\ marks = {}
    /\ slices = <<>>
    /\ yielded = 0

(* no archive has been written or read *)
PersistIdle ==
    /\ directory = <<>>
    /\ loaded = <<>>
    /\ written = {}

(* lambda_return has not been given arguments *)
ReturnIdle ==
    /\ reward = <<>>
    /\ value = <<>>
    /\ pcont = <<>>
    /\ bootstrap = <<>>
    /\ lambda_ = <<0, 1>>
    /\ axis = 0
    /\ returns = <<>>
    /\ lpc = "idle"

(* no Every object is under observation *)
EveryIdle ==
    /\ every = 0
    /\ last_ = <<>>
    /\ history = <<>>

(* the driver has not been called *)
MultiIdle ==
    /\ episode_counter = 0
    /\ total_reward = 0
    /\ curriculum = <<>>
    /\ limits = <<>>
    /\ new_episode_length = <<>>
    /\ fired = FALSE
    /\ updates = 0
    /\ phases = <<>>
    /\ checked = <<>>

DriverIdle ==
    /\ steps = 0
    /\ episode_budget = 0
    /\ dataset_limit = <<>>
    /\ is_eval = FALSE
    /\ step = 0
    /\ episode_count = 0
    /\ done = <<>>
    /\ episode_length = <<>>
    /\ obs = <<>>
    /\ agent_state = 0
    /\ last_reward = <<>>
    /\ env_id = <<>>
    /\ used = {}
    /\ eval = <<>>
    /\ runs = 0
    /\ dpc = "idle"
    /\ step0 = 0
    /\ ticks = 0
    /\ executed = <<>>
    /\ since = <<>>
    /\ newest = 0
    /\ period = 0
    /\ processed = <<>>
    /\ MultiIdle

BudgetSet == {None} \cup {Some(n) : n \in 0 .. MaxBudget}

CacheInit ==
    /\ cache = <<>>
    /\ inserted = [id \in Ids |-> 0]
    /\ op = "init"
    /\ arg = None
    /\ before = <<>>
    /\ result = 0
    /\ err = "none"
    /\ calls = 0
    /\ SamplerIdle
    /\ PersistIdle
    /\ ReturnIdle
    /\ EveryIdle
    /\ DriverIdle

AddToCache(id, transition) ==
    /\ LET r == add_to_cache(cache, id, transition)
       IN  /\ cache' = r.cache
           /\ err' = r.err
    /\ inserted' = [inserted EXCEPT ![id] = @ + 1]
    /\ op' = "add_to_cache"
    /\ arg' = Some(id)
    /\ before' = <<>>
    /\ result' = 0
    /\ calls' = calls + 1
    /\ UNCHANGED <<samplerVars, persistVars, returnVars, driverVars, everyVars>>

EraseOverEpisodes(dataset_size) ==
    /\ LET r == erase_over_episodes(cache, dataset_size)
       IN  /\ cache' = r.cache
           /\ result' = r.ret
           /\ err' = r.err
           /\ inserted' = [id \in Ids |->
                             IF Has(r.cache, id) THEN inserted[id] ELSE 0]
    /\ op' = "erase_over_episodes"
    /\ arg' = dataset_size
    /\ before' = cache
    /\ calls' = calls + 1
    /\ UNCHANGED <<samplerVars, persistVars, returnVars, driverVars, everyVars>>

CacheNext ==
    \/ /\ calls < MaxCalls
       /\ \E id \in Ids, transition \in {ResetFrame, StepFrame, BareFrame} :
              AddToCache(id, transition)
    \/ /\ calls < MaxCalls
       /\ \E dataset_size \in BudgetSet : EraseOverEpisodes(dataset_size)

CacheSpec == CacheInit /\ [][CacheNext]_vars

(* One or two episodes under arbitrary add_to_cache calls only *)
InsertNext ==
    /\ calls < MaxInserts
    /\ \E id \in 1 .. 2, transition \in TransitionSet : AddToCache(id, transition)

InsertSpec == CacheInit /\ [][InsertNext]_vars

---------------------------------------------------------------------------
(* convert applied to a value, and again to what it returned *)

(* the element types a value handed to convert may have *)
ConvertDtypes ==
    {"float16", "float32", "float64", "int8", "int16", "int32", "int64", "uint8", "bool",
     "uint16", "uint32", "uint64", "complex128", "str", "object"}

(* the values: a boolean is 0 or 1, the other types hold 0 .. MaxValue *)
ConvertInputs ==
    {Val(dt, v) : dt \in ConvertDtypes \ {"bool"}, v \in 0 .. MaxValue}
        \cup {Val("bool", v) : v \in 0 .. 1}

ConvertInit ==
    /\ cache = <<>>
    /\ inserted = [id \in Ids |-> 0]
    /\ op = "init"
    /\ arg \in ConvertInputs
    /\ before = arg
    /\ result = arg
    /\ err = "none"
    /\ calls = 0
    /\ SamplerIdle
    /\ PersistIdle
    /\ ReturnIdle
    /\ EveryIdle
    /\ DriverIdle

(* result = convert(result): `before` keeps the value convert was given *)
Convert ==
    /\ calls < MaxConverts
    /\ err = "none"
    /\ before' = result
    /\ IF ConvertRaises(result)
       THEN /\ err' = "NotImplementedError"
            /\ result' = result
       ELSE /\ err' = "none"
            /\ result' = convert(result)
    /\ op' = "convert"
    /\ calls' = calls + 1
    /\ UNCHANGED <<cache, inserted, arg, samplerVars, persistVars, returnVars, driverVars,
                   everyVars>>

ConvertSpec == ConvertInit /\ [][Convert]_vars

---------------------------------------------------------------------------
(* Properties of the cache *)

RECURSIVE SumTransitions(_, _)
SumTransitions(c, i) ==
    IF i > Len(c) THEN 0 ELSE Transitions(c[i][2]) + SumTransitions(c, i + 1)

(* sum over the episodes of c of len(reward) - 1 *)
RetainedSteps(c) == SumTransitions(c, 1)

Erased == op = "erase_over_episodes" /\ err = "none"

(* the last call was given a budget B > 0 *)
WithBudget == arg # <<>> /\ arg[1] > 0

(* C1: after any sequence of add_to_cache calls for an id, every field list
   of the episode has as many items as transitions were inserted for it *)
C1_FieldLengths ==
    \A i \in DOMAIN cache :
        \A j \in DOMAIN cache[i][2] :
            Len(cache[i][2][j][2].items) = inserted[cache[i][1]]

(* C2: after erase_over_episodes with a budget B > 0 the retained episodes
   hold at most B transitions, and the returned value is their number *)
C2_BudgetRespected ==
    (Erased /\ WithBudget) =>
        /\ RetainedSteps(cache) <= arg[1]
        /\ result = RetainedSteps(cache)

C2_Witness ==
    /\ Erased /\ WithBudget
    /\ Len(cache) < Len(before)
    /\ result >= 1

(* C3: after erase_over_episodes with a budget B > 0, an evicted episode
   leaves no episode of a smaller identifier behind *)
C3_NewestRetained ==
    (Erased /\ WithBudget) =>
        \A a \in Keys(before), b \in Keys(before) :
            (a < b /\ b \notin Keys(cache)) => a \notin Keys(cache)

(* C4: with a budget of None or 0 erase_over_episodes removes nothing and
   returns the transitions of all episodes *)
C4_NoBudgetNoEviction ==
    (Erased /\ ~WithBudget) =>
        /\ cache = before
        /\ result = RetainedSteps(before)

C4_Witness ==
    /\ Erased /\ arg = Some(0)
    /\ Len(cache) >= 2
    /\ result >= 2

---------------------------------------------------------------------------
(* sample_episodes *)

Min(a, b) == IF a <= b THEN a ELSE b

(* "log_" in k, over the field names of the model *)
IsLog(k) == k \in {"log_success"}

(* v[a : b]: a slice of a list is a new list, a slice of an array is a view *)
Slice(v, a, b) == [kind |-> v.kind, items |-> SubSeq(v.items, a + 1, Min(b, Len(v.items)))]

(* len(next(iter(episode.values()))) *)
Total(episode) == Len(FirstValue(episode).items)

NonLog(episode) == SelectSeq(episode, LAMBDA e : ~IsLog(e[1]))

(* the value True stored at a position: a list takes the Python object, an
   array casts it to its dtype *)
TrueIn(v, pos) ==
    IF v.kind = "list" THEN Val("bool", 1) ELSE Val(v.items[pos + 1].dt, 1)

(* d["is_first"][pos] = True *)
SetTrue(d, pos) ==
    LET v == Get(d, "is_first")
    IN  Put(d, "is_first", [v EXCEPT !.items[pos + 1] = TrueIn(v, pos)])

(* the window taken from the first episode drawn *)
FirstSlice(episode, index, length) ==
    LET keep == NonLog(episode)
    IN  [i \in DOMAIN keep |->
           <<keep[i][1], Slice(keep[i][2], index, Min(index + length, Total(episode)))>>]

(* a whole window wanted from every episode stitched on *)
StitchPossibleWhole(length, sz) == length

(* the steps still wanted when another episode is stitched on *)
StitchPossible(length, sz) == length - sz

(* np.append(ret[k], v[0 : min(possible, total)], axis=0), key by key *)
StitchSlice(r, episode, length, sz) ==
    LET keep == NonLog(episode)
        possible == StitchPossible(length, sz)
    IN  [i \in DOMAIN keep |->
           <<keep[i][1],
             NpArray(Get(r, keep[i][1]).items
                     \o Slice(keep[i][2], 0, Min(0 + possible, Total(episode))).items)>>]

(* a draw that includes the upper end: 0 .. total - 1 *)
FirstIndexesInclusive(total) == 0 .. total - 1

(* np_random.randint(0, total - 1): the upper end is excluded *)
FirstIndexes(total) == 0 .. total - 2

(* p > 0: np_random.choice can return the episode *)
Drawable(c, e) == e \in DOMAIN c /\ Total(c[e][2]) > 0

(* the state at the top of "while True": size = 0, ret = None *)
AtWindowStart == spc \in {"start", "yielded"}

InLoop == (AtWindowStart /\ yielded < MaxYields) \/ (spc = "loop" /\ size < sample_length)

(* an episode with fewer than 2 frames is drawn: continue *)
SampleRedraw(e) ==
    /\ InLoop
    /\ Drawable(cache, e)
    /\ Total(cache[e][2]) < 2
    /\ UNCHANGED vars

(* the first episode of a window is accepted *)
SampleFirst(e, index) ==
    /\ AtWindowStart /\ yielded < MaxYields
    /\ Drawable(cache, e)
    /\ Total(cache[e][2]) >= 2
    /\ index \in FirstIndexes(Total(cache[e][2]))
    /\ LET episode == cache[e][2]
           r == FirstSlice(episode, index, sample_length)
       IN  /\ ret' = IF Has(r, "is_first") THEN SetTrue(r, 0) ELSE r
           /\ size' = Len(FirstValue(r).items)
           \* the slice of an array shares its memory with the episode
           /\ cache' = IF Has(r, "is_first") /\ Get(episode, "is_first").kind = "array"
                        THEN [cache EXCEPT ![e][2] = SetTrue(episode, index)]
                        ELSE cache
           /\ slices' = << <<e, index, Len(FirstValue(r).items)>> >>
    /\ marks' = {0}
    /\ spc' = "loop"
    /\ UNCHANGED <<inserted, op, arg, before, result, err, calls, sample_length, yielded,
                   persistVars, returnVars, driverVars, everyVars>>

(* a further episode is stitched onto the window *)
SampleStitch(e) ==
    /\ spc = "loop" /\ size < sample_length
    /\ Drawable(cache, e)
    /\ Total(cache[e][2]) >= 2
    /\ LET episode == cache[e][2]
       IN  IF \E i \in DOMAIN NonLog(episode) : ~Has(ret, NonLog(episode)[i][1])
           THEN /\ err' = "KeyError"
                /\ spc' = "raised"
                /\ UNCHANGED <<ret, size, marks, slices>>
           ELSE LET r == StitchSlice(ret, episode, sample_length, size)
                IN  /\ ret' = IF Has(r, "is_first") THEN SetTrue(r, size) ELSE r
                    /\ size' = Len(FirstValue(r).items)
                    /\ marks' = marks \cup {size}
                    /\ slices' = Append(slices, <<e, 0, Len(FirstValue(r).items) - size>>)
                    /\ spc' = "loop"
                    /\ err' = err
    /\ UNCHANGED <<cache, inserted, op, arg, before, result, calls, sample_length, yielded,
                   persistVars, returnVars, driverVars, everyVars>>

(* size >= length: yield ret *)
SampleYield ==
    /\ spc = "loop" /\ size >= sample_length
    /\ spc' = "yielded"
    /\ yielded' = yielded + 1
    /\ UNCHANGED <<cacheVars, sample_length, ret, size, marks, slices, persistVars,
                   returnVars, driverVars, everyVars>>

(* caches the sampler is given: episodes written by the driver (lists) or read
   by load_episodes (arrays); is_first marks the reset frame; the reward of
   frame t of the e-th episode is 10 * e + t *)
FrameValue(key, e, t) ==
    CASE key = "is_first" -> Val("bool", IF t = 0 THEN 1 ELSE 0)
      [] key = "action" -> Val("int32", t)
      [] key = "reward" -> Val("float32", 10 * e + t)
      [] key = "log_success" -> Val("int32", 0)

Schemas == {<<"is_first", "action", "reward">>, <<"is_first", "reward", "log_success">>}

MakeEpisode(kind, schema, e, n) ==
    [i \in DOMAIN schema |->
       <<schema[i], [kind |-> kind, items |-> [t \in 1 .. n |-> FrameValue(schema[i], e, t - 1)]]>>]

SampleCaches ==
    UNION { { [e \in 1 .. n |-> <<e, MakeEpisode(kind, sch[e], e, len[e])>>] :
                sch \in [1 .. n -> Schemas], len \in [1 .. n -> 1 .. MaxEpLen] } :
            n \in 1 .. MaxEpisodes, kind \in {"list", "array"} }

SamplerInit ==
    /\ cache \in SampleCaches
    /\ inserted = [id \in Ids |-> 0]
    /\ op = "init"
    /\ arg = None
    /\ before = <<>>
    /\ result = 0
    /\ err = "none"
    /\ calls = 0
    /\ sample_length \in 1 .. MaxWindow
    /\ ret = <<>>
    /\ size = 0
    /\ spc = "start"
    /\ marks = {}
    /\ slices = <<>>
    /\ yielded = 0
    /\ PersistIdle
    /\ ReturnIdle
    /\ EveryIdle
    /\ DriverIdle

SamplerNext ==
    \/ \E e \in 1 .. MaxEpisodes : SampleRedraw(e)
    \/ \E e \in 1 .. MaxEpisodes, index \in 0 .. MaxEpLen : SampleFirst(e, index)
    \/ \E e \in 1 .. MaxEpisodes : SampleStitch(e)
    \/ SampleYield

SamplerSpec == SamplerInit /\ [][SamplerNext]_vars

(* fair random draws: every episode has a positive probability, so a draw
   that changes the state of the generator is not put off for ever *)
SamplerFairSpec == SamplerSpec /\ WF_vars(SamplerNext)

---------------------------------------------------------------------------
(* Properties of the sampler *)

(* C5: every window yielded has exactly `length` steps in every field *)
C5_WindowLength ==
    spc = "yielded" =>
        \A i \in DOMAIN ret : Len(ret[i][2].items) = sample_length

C5_Witness ==
    /\ spc = "yielded"
    /\ sample_length >= 3
    /\ Cardinality(marks) >= 2
    /\ \E i \in DOMAIN cache : Total(cache[i][2]) < 2

(* C6: in every window yielded, is_first is true at index 0 and at every
   stitch boundary and false at every other position *)
C6_IsFirstMarks ==
    (spc = "yielded" /\ Has(ret, "is_first")) =>
        \A pos \in 0 .. sample_length - 1 :
            (Get(ret, "is_first").items[pos + 1].v = 1) <=> (pos \in marks)

---------------------------------------------------------------------------
(* save_episodes and load_episodes *)

(* np.result_type of two of the dtypes convert produces *)
Promote(a, b) ==
    IF a = b THEN a
    ELSE IF a = "bool" THEN b
    ELSE IF b = "bool" THEN a
    ELSE IF {a, b} = {"uint8", "int32"} THEN "int32"
    ELSE IF {a, b} = {"uint8", "float32"} THEN "float32"
    ELSE "float64"

RECURSIVE PromoteAll(_, _)
PromoteAll(items, i) ==
    IF i = Len(items) THEN items[i].dt
    ELSE Promote(items[i].dt, PromoteAll(items, i + 1))

(* np.array(v): a list of values becomes one array of their common dtype *)
ArrayOf(v) ==
    IF v.kind = "array" \/ v.items = <<>> THEN NpArray(v.items)
    ELSE NpArray([i \in DOMAIN v.items |-> Val(PromoteAll(v.items, 1), v.items[i].v)])

(* np.savez_compressed(f1, **episode) *)
Archive(episode) ==
    [ok |-> TRUE,
     data |-> [i \in DOMAIN episode |-> <<episode[i][1], ArrayOf(episode[i][2])>>]]

(* "{filename}-{length - 1}.npz": the transitions without the reset frame *)
ArchiveNameOfTransitions(id, episode) == <<id, Len(Get(episode, "reward").items) - 1>>

(* "{filename}-{length}.npz" with length = len(episode["reward"]) *)
ArchiveName(id, episode) == <<id, Len(Get(episode, "reward").items)>>

(* the for loop over episodes.items(), from entry i on *)
RECURSIVE SaveLoop(_, _, _)
SaveLoop(dir, episodes, i) ==
    IF i > Len(episodes) THEN [directory |-> dir, err |-> "none"]
    ELSE LET id == episodes[i][1]
             episode == episodes[i][2]
         IN  IF ~Has(episode, "reward") THEN [directory |-> dir, err |-> "KeyError"]
             ELSE SaveLoop(Put(dir, ArchiveName(id, episode), Archive(episode)),
                           episodes, i + 1)

save_episodes(dir, episodes) == SaveLoop(dir, episodes, 1)

(* file names "{id}-{length}.npz" compared as strings; ids and lengths of the
   model are single digits, so the order is that of the pairs *)
NameLess(a, b) == a[1] < b[1] \/ (a[1] = b[1] /\ a[2] < b[2])

RECURSIVE SortedNames(_)
SortedNames(S) ==
    IF S = {} THEN <<>>
    ELSE LET m == CHOOSE x \in S : \A y \in S \ {x} : NameLess(x, y)
         IN  <<m>> \o SortedNames(S \ {m})

(* the file names taken as sorted, without reversed(...) *)
ReversedNot(q) == q

(* reversed(sorted(...)) *)
Reversed(q) == [i \in DOMAIN q |-> q[Len(q) + 1 - i]]

(* the key of a loaded episode: the stem of the file name, or the whole path *)
LoadKey(name, reverse) == IF reverse THEN name ELSE <<"directory", name[1], name[2]>>

(* the for loop over the sorted file names, from position i on *)
RECURSIVE LoadLoop(_, _, _, _, _, _, _)
LoadLoop(dir, order, i, limit, reverse, episodes, total) ==
    IF i > Len(order) THEN [episodes |-> episodes, err |-> "none"]
    ELSE LET content == Get(dir, order[i])
         IN  IF ~content.ok
             THEN LoadLoop(dir, order, i + 1, limit, reverse, episodes, total)
             ELSE LET eps == Put(episodes, LoadKey(order[i], reverse), content.data)
                  IN  IF ~Has(content.data, "reward")
                      THEN [episodes |-> eps, err |-> "KeyError"]
                      ELSE LET t == total + Transitions(content.data)
                           IN  IF Truthy(limit) /\ t >= limit[1]
                               THEN [episodes |-> eps, err |-> "none"]
                               ELSE LoadLoop(dir, order, i + 1, limit, reverse, eps, t)

load_episodes(dir, limit, reverse) ==
    LET names == SortedNames(Keys(dir))
    IN  LoadLoop(dir, IF reverse THEN Reversed(names) ELSE names, 1, limit, reverse,
                 <<>>, 0)

SaveEpisodes(id) ==
    /\ Has(cache, id)
    /\ LET r == save_episodes(directory, <<(<<id, Get(cache, id)>>)>>)
       IN  /\ directory' = r.directory
           /\ err' = r.err
           /\ written' = IF r.err = "none"
                          THEN written \cup {[id |-> id, episode |-> Get(cache, id)]}
                          ELSE written
    /\ op' = "save_episodes"
    /\ arg' = Some(id)
    /\ result' = 1
    /\ before' = <<>>
    /\ calls' = calls + 1
    /\ UNCHANGED <<cache, inserted, loaded, samplerVars, returnVars, driverVars, everyVars>>

LoadEpisodes(limit, reverse) ==
    /\ LET r == load_episodes(directory, limit, reverse)
       IN  /\ loaded' = IF r.err = "none" THEN r.episodes ELSE <<>>
           /\ err' = r.err
    /\ op' = "load_episodes"
    /\ arg' = <<limit, reverse>>
    /\ result' = 0
    /\ before' = <<>>
    /\ calls' = calls + 1
    /\ UNCHANGED <<cache, inserted, directory, written, samplerVars, returnVars,
                   driverVars, everyVars>>

(* a write that was cut short leaves a file np.load cannot read *)
CorruptFile(name) ==
    /\ Has(directory, name)
    /\ Get(directory, name).ok
    /\ directory' = Put(directory, name, [ok |-> FALSE, data |-> <<>>])
    /\ written' = {w \in written : <<w.id, Len(Get(w.episode, "reward").items)>> # name}
    /\ op' = "corrupt"
    /\ arg' = None
    /\ result' = 0
    /\ before' = <<>>
    /\ err' = "none"
    /\ calls' = calls + 1
    /\ UNCHANGED <<cache, inserted, loaded, samplerVars, returnVars, driverVars, everyVars>>

PersistInit ==
    /\ cache = <<>>
    /\ inserted = [id \in Ids |-> 0]
    /\ op = "init"
    /\ arg = None
    /\ before = <<>>
    /\ result = 0
    /\ err = "none"
    /\ calls = 0
    /\ SamplerIdle
    /\ directory = <<>>
    /\ loaded = <<>>
    /\ written = {}
    /\ ReturnIdle
    /\ EveryIdle
    /\ DriverIdle

PersistNext ==
    \/ /\ calls < MaxPersistCalls
       /\ \E id \in 1 .. 2, transition \in {ResetFrame, StepFrame, LogFrame} :
              AddToCache(id, transition)
    \/ /\ calls < MaxPersistCalls
       /\ \E id \in 1 .. 2 : SaveEpisodes(id)
    \/ /\ calls < MaxPersistCalls + 1
       /\ \E limit \in BudgetSet, reverse \in BOOLEAN : LoadEpisodes(limit, reverse)
    \/ /\ calls < MaxPersistCalls
       /\ \E name \in Keys(directory) : CorruptFile(name)

PersistSpec == PersistInit /\ [][PersistNext]_vars

---------------------------------------------------------------------------
(* Properties of the persistence bridge *)

Homogeneous(items) == \A i \in DOMAIN items : items[i].dt = items[1].dt

(* the same numbers in the same order, of the same dtype where the saved list
   had one dtype *)
SameArray(a, v) ==
    /\ Len(a.items) = Len(v.items)
    /\ \A i \in DOMAIN v.items : a.items[i].v = v.items[i].v
    /\ Homogeneous(v.items) => \A i \in DOMAIN v.items : a.items[i].dt = v.items[i].dt

SameEpisode(a, episode) ==
    /\ Len(a) = Len(episode)
    /\ \A i \in DOMAIN episode :
          /\ a[i][1] = episode[i][1]
          /\ SameArray(a[i][2], episode[i][2])

(* C7: an episode written by save_episodes is returned by load_episodes under
   the key (id, number of frames) with the same fields and the same arrays *)
C7_RoundTrip ==
    (op = "load_episodes" /\ err = "none" /\ arg = <<None, TRUE>>) =>
        \A w \in written :
            LET name == <<w.id, Len(Get(w.episode, "reward").items)>>
            IN  /\ Has(loaded, name)
                /\ SameEpisode(Get(loaded, name), w.episode)

C7_Witness ==
    /\ op = "load_episodes" /\ err = "none" /\ arg = <<None, TRUE>>
    /\ Cardinality(written) >= 2
    /\ \E w \in written :
          /\ Has(w.episode, "log_success")
          /\ Len(Get(w.episode, "reward").items) >= 3
          /\ Get(Get(loaded, <<w.id, 3>>), "action").kind = "array"

---------------------------------------------------------------------------
(* lambda_return and static_scan_for_lambda_return.  Numbers are exact
   rationals <<numerator, denominator>>; a tensor of shape [T, B, 1] is a
   sequence over time of rows over the batch. *)

Abs(n) == IF n < 0 THEN -n ELSE n

RECURSIVE GCD(_, _)
GCD(a, b) == IF b = 0 THEN a ELSE GCD(b, a % b)

Rat(n, d) ==
    LET g == GCD(Abs(n), Abs(d))
        sgn == IF d < 0 THEN -1 ELSE 1
    IN  <<sgn * (n \div g), sgn * (d \div g)>>

RInt(n) == <<n, 1>>
RAdd(x, y) == Rat(x[1] * y[2] + y[1] * x[2], x[2] * y[2])
RSub(x, y) == Rat(x[1] * y[2] - y[1] * x[2], x[2] * y[2])
RMul(x, y) == Rat(x[1] * y[1], x[2] * y[2])

ROne == RInt(1)
RZero == RInt(0)

(* torch.zeros_like(value[-1]) *)
ZerosLike(row) == [b \in DOMAIN row |-> RZero]

(* value itself, without the shift by one step *)
NextValuesUnshifted(val, boot) == val

(* torch.cat([value[1:], bootstrap[None]], 0) *)
NextValues(val, boot) == Append(Tail(val), boot)

(* inputs = reward + pcont * next_values * (1 - lambda_) *)
ScanInputs(rew, pc, nv, lam) ==
    [t \in DOMAIN rew |->
       [b \in DOMAIN rew[t] |->
          RAdd(rew[t][b], RMul(RMul(pc[t][b], nv[t][b]), RSub(ROne, lam)))]]

(* lambda agg, cur0, cur1: cur0 + cur1 * lambda_ * agg *)
ScanFn(agg, cur0, cur1, lam) ==
    [b \in DOMAIN agg |-> RAdd(cur0[b], RMul(RMul(cur1[b], lam), agg[b]))]

(* torch.cat([outputs, last], dim=-1): one more column *)
CatLast(outputs, last) == [b \in DOMAIN last |-> Append(outputs[b], last[b])]

(* the rows left as they were gathered, last step first *)
FlipNot(outputs) == outputs

(* torch.flip(outputs, [1]) *)
Flip(outputs) == [b \in DOMAIN outputs |-> Reversed(outputs[b])]

(* the loop over reversed(range(T)), at position index *)
RECURSIVE ScanLoop(_, _, _, _, _, _)
ScanLoop(inputs, pc, lam, last, index, outputs) ==
    IF index = 0 THEN outputs
    ELSE LET new == ScanFn(last, inputs[index], pc[index], lam)
         IN  ScanLoop(inputs, pc, lam, new, index - 1, CatLast(outputs, new))

(* returns the tuple torch.unbind(outputs, dim=0): one sequence over time for
   each element of the batch *)
static_scan_for_lambda_return(inputs, pc, lam, start) ==
    Flip(ScanLoop(inputs, pc, lam, start, Len(inputs), [b \in DOMAIN start |-> <<>>]))

(* the sizes a and b of one dimension can be broadcast together *)
Broadcastable(a, b) == a = b \/ a = 1 \/ b = 1

(* a tensor of size 1 along the time dimension expanded to size n *)
Broadcast(x, n) == IF Len(x) = 1 THEN [t \in 1 .. n |-> x[1]] ELSE x

(* the arguments are given with the time axis moved to the front and all
   have rank 3, which is all the assertion compares.  reward and pcont have
   T steps, value may have another number of steps: the sum that builds
   `inputs` broadcasts or raises RuntimeError, and the scan runs over the
   steps of `inputs` and indexes pcont with them.  A tuple has no permute, so
   a time axis other than 0 ends in an AttributeError. *)
lambda_return(rew, val, pc, boot, lam, ax) ==
    LET bs == IF boot = None THEN ZerosLike(val[Len(val)]) ELSE boot
        next_values == NextValues(val, bs)
        n == IF Len(rew) >= Len(next_values) THEN Len(rew) ELSE Len(next_values)
        inputs == ScanInputs(Broadcast(rew, n), Broadcast(pc, n),
                             Broadcast(next_values, n), lam)
        out == static_scan_for_lambda_return(inputs, pc, lam, bs)
    IN  IF ~Broadcastable(Len(rew), Len(next_values))
        THEN [returns |-> <<>>, err |-> "RuntimeError"]
        ELSE IF Len(pc) < Len(inputs) THEN [returns |-> <<>>, err |-> "IndexError"]
        ELSE IF ax # 0 THEN [returns |-> <<>>, err |-> "AttributeError"]
        ELSE [returns |-> out, err |-> "none"]

BatchSize == 2

Batch == 1 .. BatchSize

(* reward: any 0/1 tensor; value: zero or a ramp; pcont: 0 or 1 at each step;
   bootstrap: None or any 0/3 row *)
RewardSet(T) == [1 .. T -> [Batch -> {RInt(0), RInt(1)}]]
ValueSet(T) == {[t \in 1 .. T |-> [b \in Batch |-> RInt(0)]],
                [t \in 1 .. T |-> [b \in Batch |-> RInt(2 * t + b)]]}
PcontSet(T) == {[t \in 1 .. T |-> [b \in Batch |-> RInt(d[t])]] : d \in [1 .. T -> {0, 1}]}
BootstrapSet == {None} \cup [Batch -> {RInt(0), RInt(3)}]
LambdaSet == {RInt(0), Rat(1, 2), RInt(1)}

ReturnInit ==
    /\ cache = <<>>
    /\ inserted = [id \in Ids |-> 0]
    /\ op = "init"
    /\ arg = None
    /\ before = <<>>
    /\ result = 0
    /\ err = "none"
    /\ calls = 0
    /\ SamplerIdle
    /\ PersistIdle
    /\ DriverIdle
    /\ EveryIdle
    /\ \E T \in 1 .. MaxT :
          /\ reward \in RewardSet(T)
          /\ value \in ValueSet(T) \cup ValueSet(1) \cup ValueSet(T + 1)
          /\ pcont \in PcontSet(T)
    /\ bootstrap \in BootstrapSet
    /\ lambda_ \in LambdaSet
    /\ axis \in {0, 1}
    /\ returns = <<>>
    /\ lpc = "input"

LambdaReturn ==
    /\ lpc = "input"
    /\ LET r == lambda_return(reward, value, pcont, bootstrap, lambda_, axis)
       IN  /\ returns' = r.returns
           /\ err' = r.err
           /\ lpc' = IF r.err = "none" THEN "returned" ELSE "raised"
    /\ UNCHANGED <<cache, inserted, op, arg, before, result, calls, samplerVars,
                   persistVars, reward, value, pcont, bootstrap, lambda_, axis, driverVars,
                   everyVars>>

ReturnNext == LambdaReturn

ReturnSpec == ReturnInit /\ [][ReturnNext]_vars

---------------------------------------------------------------------------
(* Properties of the return estimator *)

BootOf(b) == IF bootstrap = <<>> THEN <<0, 1>> ELSE bootstrap[b]

(* G[t] = reward[t] + discount[t] * G[t+1], G[T] = bootstrap *)
RECURSIVE MonteCarlo(_, _)
MonteCarlo(t, b) ==
    IF t > Len(reward) THEN BootOf(b)
    ELSE RAdd(reward[t][b], RMul(pcont[t][b], MonteCarlo(t + 1, b)))

(* reward[t] + discount[t] * next_value[t] *)
OneStep(t, b) ==
    RAdd(reward[t][b],
         RMul(pcont[t][b], IF t < Len(value) THEN value[t + 1][b] ELSE BootOf(b)))

(* C8: with lambda = 1 the result is the discounted Monte-Carlo return,
   whatever `value` holds *)
C8_MonteCarlo ==
    (lpc = "returned" /\ lambda_ = <<1, 1>>) =>
        \A b \in Batch : \A t \in 1 .. Len(reward) : returns[b][t] = MonteCarlo(t, b)

C8_Witness ==
    /\ lpc = "returned" /\ lambda_ = <<1, 1>>
    /\ Len(reward) >= 2
    /\ value[1][1] # <<0, 1>>
    /\ returns[1][1] = <<5, 1>> /\ returns[1][2] = <<4, 1>> /\ returns[2][1] = <<0, 1>>

(* C9: with lambda = 0 the result at every step is the one-step target *)
C9_OneStep ==
    (lpc = "returned" /\ lambda_ = <<0, 1>>) =>
        \A b \in Batch : \A t \in 1 .. Len(reward) : returns[b][t] = OneStep(t, b)

C9_Witness ==
    /\ lpc = "returned" /\ lambda_ = <<0, 1>>
    /\ Len(reward) >= 2
    /\ returns[1][1] = <<6, 1>> /\ returns[1][2] = <<4, 1>> /\ returns[2][1] = <<6, 1>>

---------------------------------------------------------------------------
(* simulate: the driver loop over the environment slots.  One tick is the
   reset of the slots flagged done (DriverReset) followed by the rest of the
   loop body (DriverStep): agent, environment step, counters, cache, and the
   processing of the episodes that ended. *)

(* len(envs) of the runs that draw ids and outcomes freely *)
NumSlots == 2

(* range(len(envs)) *)
Slots == DOMAIN done

(* what env.reset()() returns *)
ResetObs ==
    << <<"image", Val("uint8", 7)>>, <<"is_first", Val("bool", 1)>>,
       <<"log_success", Val("int64", 0)>> >>

(* the observation part of what env.step(a)() returns *)
StepObs(o) ==
    << <<"image", Val("uint8", 7)>>, <<"is_first", Val("bool", 0)>>,
       <<"log_success", Val("int64", IF o.done THEN 1 ELSE 0)>> >>

(* what an environment may answer to a step: reward, done and info; the
   episode goes on, ends, or is cut by a time limit (info carries discount) *)
StepOutcomes ==
    { [reward |-> Val("float64", 1), done |-> FALSE, info |-> <<>>],
      [reward |-> Val("float64", 1), done |-> TRUE, info |-> <<>>],
      [reward |-> Val("float64", 0), done |-> TRUE,
       info |-> << <<"discount", Val("float64", 1)>> >>] }

(* the action the agent returns for a slot *)
AgentAction == Val("int64", 0)

ConvertAll(d) == [i \in DOMAIN d |-> <<d[i][1], convert(d[i][2])>>]

(* t = {k: convert(v)}; t["reward"] = 0.0; t["discount"] = 1.0 *)
ResetTransition(first_obs) ==
    Put(Put(ConvertAll(first_obs), "reward", Val("float64", 0)), "discount", Val("float64", 1))

(* info.get("discount", np.array(1 - float(d))) *)
DiscountOf(o) ==
    IF Has(o.info, "discount") THEN Get(o.info, "discount")
    ELSE Val("float64", IF o.done THEN 0 ELSE 1)

StepTransition(a, o) ==
    Put(Put(Put(ConvertAll(StepObs(o)), "action", a), "reward", o.reward),
        "discount", DiscountOf(o))

(* a budget test that asks for both budgets to be open *)
LoopGuardBoth ==
    /\ (steps # 0 /\ step < steps)
    /\ (episode_budget # 0 /\ episode_count < episode_budget)

(* a budget test that lets one more tick through: step <= steps *)
LoopGuardInclusive ==
    \/ (steps # 0 /\ step <= steps)
    \/ (episode_budget # 0 /\ episode_count <= episode_budget)

(* (steps and step < steps) or (episodes and episode < episodes) *)
LoopGuard ==
    \/ (steps # 0 /\ step < steps)
    \/ (episode_budget # 0 /\ episode_count < episode_budget)

(* a reset that is never due *)
AnyDoneNever == FALSE

AnyDone == \E i \in Slots : done[i]

(* add_to_cache for the slots of `which`, in slot order, each under the id
   ids[i] with the transition trs[i]; `at` is the slot whose call raised (0:
   none), the calls for the slots after it are not made *)
RECURSIVE AddSlots(_, _, _, _, _)
AddSlots(c, ids, trs, which, i) ==
    IF i > Len(ids) THEN [cache |-> c, err |-> "none", at |-> 0]
    ELSE IF i \notin which THEN AddSlots(c, ids, trs, which, i + 1)
    ELSE LET r == add_to_cache(c, ids[i], trs[i])
         IN  IF r.err # "none" THEN [cache |-> r.cache, err |-> r.err, at |-> i]
             ELSE AddSlots(r.cache, ids, trs, which, i + 1)

(* the ids the environments may show after a reset of the slots flagged done:
   an environment keeps its id or hands out one never used before *)
ResetIds ==
    { f \in [Slots -> 1 .. MaxIds] :
        /\ \A i \in Slots : ~done[i] => f[i] = env_id[i]
        /\ \A i \in Slots : done[i] => ((f[i] = env_id[i] /\ f[i] \in used)
                                          \/ f[i] \notin used)
        /\ \A i \in Slots, j \in Slots : i # j => f[i] # f[j] }

Max(a, b) == IF a >= b THEN a ELSE b

RECURSIVE MaxOf(_)
MaxOf(S) == IF S = {} THEN 0 ELSE LET x == CHOOSE y \in S : TRUE
                                  IN  Max(x, MaxOf(S \ {x}))

(* environments whose ids increase with the time of the reset: every reset
   hands out the next id, in slot order *)
FreshIds ==
    [i \in Slots |-> IF done[i]
                     THEN MaxOf(used) + Cardinality({j \in Slots : done[j] /\ j <= i})
                     ELSE env_id[i]]

(* the id of the entry created last when add_to_cache runs for the slots of
   `which` in slot order on the cache c and leaves the cache `after`: a call
   that was not made created nothing *)
NewestAfter(c, after, ids, which) ==
    LET created == {i \in which : ~Has(c, ids[i]) /\ Has(after, ids[i])}
    IN  IF created = {} THEN newest ELSE ids[MaxOf(created)]

(* obs[index] = result for the slots flagged done whose add_to_cache has
   returned; r is what AddSlots gave *)
ResetObsAfter(r, first_obs) ==
    [i \in Slots |-> IF done[i] /\ (r.at = 0 \/ i < r.at) THEN first_obs ELSE obs[i]]

(* "if done.any()": reset, record the reset frame, replace the observation *)
ResetWith(ids) ==
    /\ dpc = "top"
    /\ LoopGuard
    /\ AnyDone
    /\ \E r \in {AddSlots(cache, ids, [i \in Slots |-> ResetTransition(ResetObs)],
                          {i \in Slots : done[i]}, 1)} :
          /\ cache' = r.cache
          /\ err' = r.err
          /\ dpc' = IF r.err = "none" THEN "ready" ELSE "raised"
          /\ newest' = NewestAfter(cache, r.cache, ids, {i \in Slots : done[i]})
          /\ obs' = ResetObsAfter(r, ResetObs)
    /\ env_id' = ids
    /\ used' = used \cup {ids[i] : i \in Slots}
    /\ since' = [i \in Slots |-> IF done[i] THEN 0 ELSE since[i]]
    /\ op' = "reset"
    /\ UNCHANGED <<inserted, arg, before, result, calls, samplerVars, persistVars,
                   returnVars, steps, episode_budget, dataset_limit, is_eval, step,
                   episode_count, done, episode_length, agent_state, last_reward, eval,
                   runs, step0, ticks, executed, period, processed, multiVars,
                   everyVars>>

DriverReset == \E ids \in ResetIds : ResetWith(ids)

(* the episode-length component is an array over the slots, or the scalar the
   processing of a finished episode leaves in `length` *)
LengthArray(v) == [scalar |-> FALSE, v |-> v]
LengthScalar(x) == [scalar |-> TRUE, v |-> <<x>>]

(* length += 1; length *= 1 - done *)
NextLength(len, d) ==
    LengthArray([i \in DOMAIN d |->
        RMul(RAdd(IF len.scalar THEN len.v[1] ELSE len.v[i], ROne),
             IF d[i] THEN RZero ELSE ROne)])

RECURSIVE SumV(_, _)
SumV(items, i) == IF i > Len(items) THEN 0 ELSE items[i].v + SumV(items, i + 1)

(* the locals eval_lengths and eval_done, the summaries written and the
   length of eval_scores when the last one was written *)
EvalNone == [n |-> 0, total |-> 0, done |-> FALSE, summaries |-> 0, at |-> 0]

(* a summary that does not look at eval_done *)
EvalRecordEveryTime(ev, n) ==
    LET cnt == ev.n + 1
        emit == cnt >= episode_budget
    IN  [n |-> cnt, total |-> ev.total + n, done |-> ev.done \/ emit,
         summaries |-> ev.summaries + (IF emit THEN 1 ELSE 0),
         at |-> IF emit THEN cnt ELSE ev.at]

(* the else branch of "if not is_eval" for an episode of n transitions *)
EvalRecord(ev, n) ==
    LET cnt == ev.n + 1
        emit == cnt >= episode_budget /\ ~ev.done
    IN  [n |-> cnt, total |-> ev.total + n, done |-> ev.done \/ emit,
         summaries |-> ev.summaries + (IF emit THEN 1 ELSE 0),
         at |-> IF emit THEN cnt ELSE ev.at]

(* "for i in indices": save, log and drop the log_ fields, then evict (train)
   or keep the evaluation averages.  cache[id] and episode["reward"] are read
   before the archive is written, cache[id]["image"] after it *)
RECURSIVE DoneLoop(_, _, _, _, _, _, _)
DoneLoop(c, dir, len, ev, d, log, i) ==
    IF i > Len(d) THEN [cache |-> c, directory |-> dir, length |-> len, eval |-> ev,
                        log |-> log, err |-> "none"]
    ELSE IF ~d[i] THEN DoneLoop(c, dir, len, ev, d, log, i + 1)
    ELSE IF ~Has(c, env_id[i]) \/ ~Has(Get(c, env_id[i]), "reward")
    THEN [cache |-> c, directory |-> dir, length |-> len, eval |-> ev, log |-> log,
          err |-> "KeyError"]
    ELSE IF ~Has(Get(c, env_id[i]), "image")
    THEN [cache |-> c,
          directory |-> save_episodes(dir, <<(<<env_id[i], Get(c, env_id[i])>>)>>).directory,
          length |-> LengthScalar(RInt(Transitions(Get(c, env_id[i])))), eval |-> ev,
          log |-> Append(log, <<"save", i>>), err |-> "KeyError"]
    ELSE LET ep == Get(c, env_id[i])
             saved == save_episodes(dir, <<(<<env_id[i], ep>>)>>)
             n == Transitions(ep)
             c1 == Put(c, env_id[i], NonLog(ep))
             log1 == Append(log, <<"save", i>>)
         IN  IF ~is_eval
             THEN LET erased == erase_over_episodes(c1, dataset_limit)
                      log2 == Append(log1, <<"erase", i>>)
                  IN  IF erased.err # "none"
                      THEN [cache |-> erased.cache, directory |-> saved.directory,
                            length |-> LengthScalar(RInt(n)), eval |-> ev,
                            log |-> log2, err |-> erased.err]
                      ELSE DoneLoop(erased.cache, saved.directory,
                                    LengthScalar(RInt(n)), ev, d, log2, i + 1)
             ELSE LET ev1 == EvalRecord(ev, n)
                  IN  DoneLoop(c1, saved.directory,
                               LengthScalar(Rat(ev1.total, ev1.n)), ev1, d, log1, i + 1)

(* the loop body goes on past the reset branch *)
StepReady == dpc = "ready" \/ (dpc = "top" /\ ~AnyDone)

(* the agent call, the results of the step and the counters *)
StepCounters(out) ==
    /\ obs' = [i \in Slots |-> StepObs(out[i])]
    /\ last_reward' = [i \in Slots |-> out[i].reward]
    /\ done' = [i \in Slots |-> out[i].done]
    /\ episode_count' = episode_count + Cardinality({i \in Slots : out[i].done})
    /\ step' = step + Len(env_id)
    /\ ticks' = ticks + 1
    /\ executed' = [i \in Slots |-> executed[i] + 1]
    /\ since' = [i \in Slots |-> since[i] + 1]
    /\ agent_state' = agent_state + 1
    /\ op' = "step"

(* "add to cache" and the processing of the episodes that ended *)
StepCache(out) ==
    /\ \E added \in {AddSlots(cache, env_id,
                              [i \in Slots |-> StepTransition(AgentAction, out[i])],
                              Slots, 1)} :
       /\ newest' = NewestAfter(cache, added.cache, env_id, Slots)
       /\ IF added.err # "none"
          THEN /\ cache' = added.cache
               /\ err' = added.err
               /\ dpc' = "raised"
               /\ processed' = <<>>
               /\ episode_length' =
                      NextLength(episode_length, [i \in Slots |-> out[i].done])
               /\ UNCHANGED <<directory, eval>>
          ELSE \E r \in {DoneLoop(added.cache, directory,
                                  NextLength(episode_length, [i \in Slots |-> out[i].done]),
                                  eval, [i \in Slots |-> out[i].done], <<>>, 1)} :
                  /\ cache' = r.cache
                  /\ directory' = r.directory
                  /\ episode_length' = r.length
                  /\ eval' = r.eval
                  /\ processed' = r.log
                  /\ err' = r.err
                  /\ dpc' = IF r.err = "none" THEN "top" ELSE "raised"

(* the rest of the loop body of simulate *)
StepWith(out) ==
    /\ LoopGuard
    /\ StepReady
    /\ StepCounters(out)
    /\ StepCache(out)
    /\ UNCHANGED <<inserted, arg, before, result, calls, samplerVars, loaded, written,
                   returnVars, steps, episode_budget, dataset_limit, is_eval, env_id, used,
                   runs, step0, period, multiVars, everyVars>>

DriverStep == \E out \in [Slots -> StepOutcomes] : StepWith(out)

(* cache.popitem(last=True) in the place of last=False *)
KeepFirst(c) == IF Len(c) > 1 THEN <<c[1]>> ELSE c

(* while len(cache) > 1: cache.popitem(last=False) *)
KeepLast(c) == IF Len(c) > 1 THEN <<c[Len(c)]>> ELSE c

(* a return of the raw counter: step *)
ReturnedStepRaw == step

(* the step component of the returned state: step - steps *)
ReturnedStep == step - steps

(* the loop ends: prune in evaluation mode and return the state *)
DriverReturn ==
    /\ dpc = "top"
    /\ ~LoopGuard
    /\ cache' = IF is_eval THEN KeepLast(cache) ELSE cache
    /\ step' = ReturnedStep
    /\ episode_count' = episode_count - episode_budget
    /\ dpc' = "returned"
    /\ op' = "return"
    /\ UNCHANGED <<inserted, arg, before, result, err, calls, samplerVars, persistVars,
                   returnVars, steps, episode_budget, dataset_limit, is_eval, done,
                   episode_length, obs, agent_state, last_reward, env_id, used, eval, runs,
                   step0, ticks, executed, since, newest, period, processed,
                   multiVars, everyVars>>

(* simulate is called again with the state it returned, the same cache and
   the same budget *)
DriverResume ==
    /\ dpc = "returned"
    /\ runs < MaxRuns
    /\ runs' = runs + 1
    /\ step0' = step
    /\ ticks' = 0
    /\ eval' = EvalNone
    /\ dpc' = "top"
    /\ op' = "call"
    /\ UNCHANGED <<cache, inserted, arg, before, result, err, calls, samplerVars,
                   persistVars, returnVars, steps, episode_budget, dataset_limit, is_eval,
                   step, episode_count, done, episode_length, obs, agent_state,
                   last_reward, env_id, used, executed, since, newest, period, processed,
                   multiVars, everyVars>>

(* an empty cache and nothing else going on *)
EmptyCache ==
    /\ cache = <<>>
    /\ inserted = [id \in Ids |-> 0]
    /\ op = "call"
    /\ arg = None
    /\ before = <<>>
    /\ result = 0
    /\ err = "none"
    /\ calls = 0
    /\ SamplerIdle
    /\ PersistIdle
    /\ ReturnIdle
    /\ EveryIdle

(* "if state is None": the simulation state of a first call on n slots *)
FreshState(n) ==
    /\ step = 0
    /\ episode_count = 0
    /\ done = [i \in 1 .. n |-> TRUE]
    /\ episode_length = LengthArray([i \in 1 .. n |-> RZero])
    /\ obs = [i \in 1 .. n |-> <<>>]
    /\ agent_state = 0
    /\ last_reward = [i \in 1 .. n |-> Val("int64", 0)]
    /\ env_id = [i \in 1 .. n |-> 0]
    /\ used = {}
    /\ eval = EvalNone
    /\ runs = 1
    /\ dpc = "top"
    /\ step0 = 0
    /\ ticks = 0
    /\ executed = [i \in 1 .. n |-> 0]
    /\ since = [i \in 1 .. n |-> 0]
    /\ newest = 0
    /\ processed = <<>>

(* simulate(agent, envs, cache, directory, logger, is_eval, limit, steps,
   state=None) on an empty cache *)
DriverInit ==
    /\ EmptyCache
    /\ steps = MaxSteps
    /\ episode_budget = 0
    /\ \/ is_eval = FALSE /\ dataset_limit \in {None} \cup {Some(n) : n \in 1 .. MaxLimit}
       \/ is_eval = TRUE /\ dataset_limit = None
    /\ FreshState(NumSlots)
    /\ period = 0
    /\ MultiIdle

DriverNext ==
    \/ DriverReset
    \/ DriverStep
    \/ DriverReturn

DriverSpec == DriverInit /\ [][DriverNext]_vars
---------------------------------------------------------------------------
(* Pause and resume: simulate called again and again with the state it
   returned, on one to MaxSlots environments that hand out increasing ids *)

ResumeOutcomes == {o \in StepOutcomes : o.info = <<>>}

ResumeInit ==
    /\ EmptyCache
    /\ steps \in 1 .. MaxResumeSteps
    /\ episode_budget = 0
    /\ \/ is_eval = FALSE /\ dataset_limit \in {None, Some(1)}
       \/ is_eval = TRUE /\ dataset_limit = None
    /\ \E n \in 1 .. MaxSlots : FreshState(n)
    /\ period = 0
    /\ MultiIdle

ResumeReset == \E ids \in {FreshIds} : ResetWith(ids)

ResumeStep == \E out \in [Slots -> ResumeOutcomes] : StepWith(out)

ResumeNext ==
    \/ ResumeReset
    \/ ResumeStep
    \/ DriverReturn
    \/ DriverResume

ResumeSpec == ResumeInit /\ [][ResumeNext]_vars

---------------------------------------------------------------------------
(* The two budgets: simulate called with any step budget and any episode
   budget (0: not given), in training and in evaluation mode, and called
   again with the state it returned *)

(* one environment, or two that may finish in the same tick *)
BudgetSlotCounts == {1, 2}

BudgetInit ==
    /\ EmptyCache
    /\ steps \in 0 .. MaxBudgetSteps
    /\ episode_budget \in 0 .. MaxBudgetEpisodes
    /\ is_eval \in BOOLEAN
    /\ dataset_limit = None
    /\ \E n \in BudgetSlotCounts : FreshState(n)
    /\ period = 0
    /\ MultiIdle

BudgetReset == \E ids \in {FreshIds} : ResetWith(ids)

(* the episodes of the environments may never end: the ticks of all the
   calls together (one agent call each) are capped *)
BudgetStep ==
    /\ agent_state < MaxBudgetTicks
    /\ \E out \in [Slots -> ResumeOutcomes] : StepWith(out)

BudgetNext ==
    \/ BudgetReset
    \/ BudgetStep
    \/ DriverReturn
    \/ DriverResume

BudgetSpec == BudgetInit /\ [][BudgetNext]_vars

---------------------------------------------------------------------------
(* simulate_multi_test: the loop of simulate_multi with test_step in the place
   of the two-phase step and without the processing of finished episodes:
   nothing is saved, logged or evicted, finished episodes stay in the cache *)

MultiTestReset == \E ids \in ResetIds : ResetWith(ids)

(* agent call, test_step, counters, add to cache *)
MultiTestStep ==
    /\ LoopGuard
    /\ StepReady
    /\ agent_state < MaxBudgetTicks
    /\ \E out \in [Slots -> ResumeOutcomes] :
          /\ StepCounters(out)
          /\ \E added \in {AddSlots(cache, env_id,
                                    [i \in Slots |-> StepTransition(AgentAction, out[i])],
                                    Slots, 1)} :
                /\ cache' = added.cache
                /\ err' = added.err
                /\ dpc' = IF added.err = "none" THEN "top" ELSE "raised"
                /\ newest' = NewestAfter(cache, added.cache, env_id, Slots)
          /\ episode_length' = NextLength(episode_length, [i \in Slots |-> out[i].done])
    /\ processed' = <<>>
    /\ UNCHANGED <<inserted, arg, before, result, calls, samplerVars, persistVars,
                   returnVars, steps, episode_budget, dataset_limit, is_eval, env_id, used,
                   eval, runs, step0, period, multiVars, everyVars>>

MultiTestSpec == BudgetInit /\ [][MultiTestReset \/ MultiTestStep \/ DriverReturn]_vars

---------------------------------------------------------------------------
(* run_agent: `while True` in the place of the budget test, the reset branch
   of simulate, then the agent call, a read of obs["dist_to_target"] and
   test_step; nothing is added to the cache after the step and the loop has
   no exit, so the pruning and the return after it are never reached *)

(* an observation of an environment that reports the distance to the target *)
WithDistance(o) == Append(o, <<"dist_to_target", Val("float64", 1)>>)

(* the reset branch; the environments either all report the distance or none
   of them does *)
RunAgentReset ==
    /\ dpc = "top"
    /\ AnyDone
    /\ \E ids \in ResetIds, first_obs \in {ResetObs, WithDistance(ResetObs)} :
          /\ \A i \in Slots :
                ~done[i] => (Has(obs[i], "dist_to_target")
                               <=> Has(first_obs, "dist_to_target"))
          /\ \E r \in {AddSlots(cache, ids,
                                [i \in Slots |-> ResetTransition(first_obs)],
                                {i \in Slots : done[i]}, 1)} :
                /\ cache' = r.cache
                /\ err' = r.err
                /\ dpc' = IF r.err = "none" THEN "ready" ELSE "raised"
                /\ newest' = NewestAfter(cache, r.cache, ids, {i \in Slots : done[i]})
                /\ obs' = ResetObsAfter(r, first_obs)
          /\ env_id' = ids
          /\ used' = used \cup {ids[i] : i \in Slots}
    /\ since' = [i \in Slots |-> IF done[i] THEN 0 ELSE since[i]]
    /\ op' = "reset"
    /\ UNCHANGED <<inserted, arg, before, result, calls, samplerVars, persistVars,
                   returnVars, steps, episode_budget, dataset_limit, is_eval, step,
                   episode_count, done, episode_length, agent_state, last_reward, eval,
                   runs, step0, ticks, executed, period, processed, multiVars,
                   everyVars>>

(* the agent call, obs["dist_to_target"][0], test_step and the counters; the
   ticks are capped because the loop never ends *)
RunAgentStep ==
    /\ StepReady
    /\ agent_state < MaxRunAgentTicks
    /\ agent_state' = agent_state + 1
    /\ op' = "step"
    /\ IF ~Has(obs[1], "dist_to_target")
       THEN /\ err' = "KeyError"
            /\ dpc' = "raised"
            /\ UNCHANGED <<obs, last_reward, done, episode_count, step, ticks, executed,
                           since, episode_length>>
       ELSE \E out \in [Slots -> ResumeOutcomes] :
               /\ obs' = [i \in Slots |-> WithDistance(StepObs(out[i]))]
               /\ last_reward' = [i \in Slots |-> out[i].reward]
               /\ done' = [i \in Slots |-> out[i].done]
               /\ episode_count' = episode_count + Cardinality({i \in Slots : out[i].done})
               /\ step' = step + Len(env_id)
               /\ ticks' = ticks + 1
               /\ executed' = [i \in Slots |-> executed[i] + 1]
               /\ since' = [i \in Slots |-> since[i] + 1]
               /\ episode_length' =
                      NextLength(episode_length, [i \in Slots |-> out[i].done])
               /\ err' = "none"
               /\ dpc' = "top"
    /\ UNCHANGED <<cache, inserted, arg, before, result, calls, samplerVars, persistVars,
                   returnVars, steps, episode_budget, dataset_limit, is_eval, env_id, used,
                   eval, runs, step0, newest, period, processed, multiVars, everyVars>>

RunAgentSpec == BudgetInit /\ [][RunAgentReset \/ RunAgentStep]_vars

---------------------------------------------------------------------------
(* A scripted run: environments that report done on every period-th step of
   an episode, with reward 1.0 on that step and 0.0 otherwise, and hand out
   increasing ids; no eviction limit.  After the run the cache is evicted
   with a budget. *)

ScenarioOutcome(i) ==
    [reward |-> Val("float64", IF since[i] + 1 = period THEN 1 ELSE 0),
     done |-> since[i] + 1 = period,
     info |-> <<>>]

ScenarioInit ==
    /\ EmptyCache
    /\ steps \in 1 .. MaxScenarioSteps
    /\ episode_budget = 0
    /\ is_eval = FALSE
    /\ dataset_limit = None
    /\ \E n \in 1 .. MaxSlots : FreshState(n)
    /\ period \in 1 .. MaxPeriod
    /\ MultiIdle

ScenarioReset == \E ids \in {FreshIds} : ResetWith(ids)

ScenarioStep == \E out \in {[i \in Slots |-> ScenarioOutcome(i)]} : StepWith(out)

(* erase_over_episodes(cache, b) on the cache the run left *)
ScenarioErase ==
    /\ dpc = "returned"
    /\ op = "return"
    /\ \E b \in 1 .. MaxScenarioBudget : EraseOverEpisodes(Some(b))

ScenarioNext ==
    \/ ScenarioReset
    \/ ScenarioStep
    \/ DriverReturn
    \/ ScenarioErase

ScenarioSpec == ScenarioInit /\ [][ScenarioNext]_vars

---------------------------------------------------------------------------
(* simulate_multi: the same loop with a two-phase step and the curriculum
   controller between the counters and the cache *)

reward_threshold == 6
min_episodes_threshold == 5
map_size_increase == 2
num_obstacles_increase == 1
min_dist_between_objs_increase == <<1, 2>>
episode_length_increase == 75

RLess(a, b) == a[1] * b[2] < b[1] * a[2]
RMin(a, b) == IF RLess(b, a) THEN b ELSE a

(* the environment calls of one tick, in program order: "call" is the method
   call that returns a callable, "wait" is the invocation of that callable *)
TickPhases(n) ==
    [i \in 1 .. n |-> <<"call", "pre_step", i>>]
    \o [i \in 1 .. n |-> <<"wait", "pre_step", i>>]
    \o << <<"call", "simulate_steps", 1>> >>
    \o [i \in 1 .. n |-> <<"call", "post_step", i>>]
    \o [i \in 1 .. n |-> <<"wait", "post_step", i>>]

(* a request is complete, its result available, once the callable the call
   returned has been invoked: the position of that invocation, 0 if none *)
CompletedAt(events, method, i) ==
    LET at == {k \in DOMAIN events : events[k] = <<"wait", method, i>>}
    IN  IF at = {} THEN 0 ELSE CHOOSE k \in at : \A l \in at : k <= l

(* if cur < cap: new = min(cur + inc, cap) else: new = cur *)
Clamped(cur, inc, cap) == IF cur < cap THEN Min(cur + inc, cap) ELSE cur

(* the body of "for i in range(len(envs))" for one environment: its values
   cur, its limits lim, the local new_episode_length as the earlier
   iterations left it, the answer of curriculum_coords_check, and the
   episode counter *)
CurriculumValues(cur, lim, nel, check, counter) ==
    LET new_map_size == Clamped(cur.size_of_map, map_size_increase, lim.map_limit)
        new_num_obstacles ==
            Clamped(cur.num_obstacles, num_obstacles_increase, lim.num_obstacles_limit)
        new_min_dist ==
            IF RLess(cur.min_dist_between_objs, lim.distance_between_objects_limit)
            THEN RMin(RAdd(cur.min_dist_between_objs, min_dist_between_objs_increase),
                      lim.distance_between_objects_limit)
            ELSE cur.min_dist_between_objs
        nel1 == IF cur.episode_length < lim.max_length
                THEN <<Min(cur.episode_length + episode_length_increase, lim.max_length)>>
                ELSE nel
        checked_map_size == IF check THEN Min(new_map_size + 3, lim.map_limit)
                            ELSE new_map_size
    IN  [nel |-> nel1,
         err |-> IF nel1 = <<>> THEN "UnboundLocalError" ELSE "none",
         call |-> [obstacles |-> new_num_obstacles + 3, min_dist |-> new_min_dist,
                   map_size |-> new_map_size, answer |-> check],
         values |->
            IF nel1 = <<>> THEN cur
            ELSE [size_of_map |-> checked_map_size,
                  random_starting_orientation |->
                      (checked_map_size >= 20) \/ cur.random_starting_orientation,
                  num_obstacles |-> new_num_obstacles,
                  min_dist_between_objs |-> new_min_dist,
                  episode_length |-> nel1[1],
                  reward_first_time |-> (counter <= 20) /\ cur.reward_first_time]]

(* "for i in range(len(envs))": the environments from i on *)
RECURSIVE CurriculumLoop(_, _, _, _, _, _)
CurriculumLoop(curs, nel, checks, counter, log, i) ==
    IF i > Len(curs) THEN [curriculum |-> curs, nel |-> nel, checked |-> log,
                           err |-> "none"]
    ELSE LET r == CurriculumValues(curs[i], limits[i], nel, checks[i], counter)
         IN  IF r.err # "none"
             THEN [curriculum |-> curs, nel |-> r.nel, checked |-> log, err |-> r.err]
             ELSE CurriculumLoop([curs EXCEPT ![i] = r.values], r.nel, checks,
                                 counter, Append(log, r.call), i + 1)

RECURSIVE SumRewards(_, _)
SumRewards(out, i) == IF i > Len(out) THEN 0 ELSE out[i].reward.v + SumRewards(out, i + 1)

(* total_reward / episode_counter if episode_counter != 0 else 0, compared
   with the threshold: average_reward > reward_threshold *)
AverageAbove(total, counter) == counter # 0 /\ total > reward_threshold * counter

(* the loop body of simulate_multi after the reset branch; checks[i] is what
   envs[i].curriculum_coords_check answers *)
MultiStepWith(out, checks) ==
    /\ LoopGuard
    /\ StepReady
    /\ phases' = TickPhases(Len(env_id))
    /\ StepCounters(out)
    /\ LET total == total_reward + SumRewards(out, 1)
           above == AverageAbove(total, episode_counter)
           counter == episode_counter + Cardinality({i \in Slots : out[i].done})
       IN  IF counter >= min_episodes_threshold /\ above
           THEN \E r \in {CurriculumLoop(curriculum, new_episode_length, checks,
                                         counter, <<>>, 1)} :
                   /\ fired' = TRUE
                   /\ checked' = r.checked
                   /\ curriculum' = r.curriculum
                   /\ new_episode_length' = r.nel
                   /\ IF r.err = "none"
                      THEN /\ total_reward' = 0
                           /\ episode_counter' = 0
                           /\ updates' = updates + 1
                           /\ StepCache(out)
                      ELSE /\ total_reward' = total
                           /\ episode_counter' = counter
                           /\ updates' = updates
                           /\ err' = r.err
                           /\ dpc' = "raised"
                           /\ episode_length' =
                                  NextLength(episode_length, [i \in Slots |-> out[i].done])
                           /\ processed' = <<>>
                           /\ UNCHANGED <<cache, directory, eval, newest>>
           ELSE /\ fired' = FALSE
                /\ checked' = <<>>
                /\ total_reward' = total
                /\ episode_counter' = counter
                /\ UNCHANGED <<curriculum, new_episode_length, updates>>
                /\ StepCache(out)
    /\ UNCHANGED <<inserted, arg, before, result, calls, samplerVars, loaded, written,
                   returnVars, steps, episode_budget, dataset_limit, is_eval, env_id, used,
                   runs, step0, period, limits, everyVars>>

(* what an environment of the curriculum runs may answer to a step *)
MultiOutcomes ==
    { [reward |-> Val("float64", 0), done |-> FALSE, info |-> <<>>],
      [reward |-> Val("float64", 10), done |-> TRUE, info |-> <<>>],
      [reward |-> Val("float64", 0), done |-> TRUE, info |-> <<>>] }

(* the answers of the environments of one tick: free for up to two
   environments, in lockstep for more *)
MultiJoint(n) ==
    IF n <= 2 THEN [1 .. n -> MultiOutcomes]
    ELSE {[i \in 1 .. n |-> o] : o \in MultiOutcomes}

MultiSlotCounts == {2, 5}

(* the curriculum values and limits an environment may start with *)
CurriculumProfiles ==
    { [values |-> [size_of_map |-> 10, random_starting_orientation |-> FALSE,
                   num_obstacles |-> 1, min_dist_between_objs |-> <<1, 1>>,
                   episode_length |-> 100, reward_first_time |-> TRUE],
       limits |-> [map_limit |-> 20, num_obstacles_limit |-> 2,
                   distance_between_objects_limit |-> <<3, 2>>, max_length |-> 150]],
      [values |-> [size_of_map |-> 18, random_starting_orientation |-> FALSE,
                   num_obstacles |-> 2, min_dist_between_objs |-> <<3, 2>>,
                   episode_length |-> 300, reward_first_time |-> TRUE],
       limits |-> [map_limit |-> 20, num_obstacles_limit |-> 2,
                   distance_between_objects_limit |-> <<3, 2>>, max_length |-> 300]] }

(* simulate_multi(agent, envs, cache, directory, logger, steps=...,
   state=None) in train mode on an empty cache *)
MultiInit ==
    /\ EmptyCache
    /\ steps = MaxMultiSteps
    /\ episode_budget = 0
    /\ is_eval = FALSE
    /\ dataset_limit = None
    /\ period = 0
    /\ \E n \in MultiSlotCounts :
          /\ FreshState(n)
          /\ \E p \in [1 .. n -> CurriculumProfiles] :
                /\ curriculum = [i \in 1 .. n |-> p[i].values]
                /\ limits = [i \in 1 .. n |-> p[i].limits]
    /\ episode_counter = 0
    /\ total_reward = 0
    /\ new_episode_length = <<>>
    /\ fired = FALSE
    /\ updates = 0
    /\ phases = <<>>
    /\ checked = <<>>

MultiReset == \E ids \in {FreshIds} : ResetWith(ids)

MultiStep ==
    \E out \in MultiJoint(Len(env_id)) :
        \E checks \in [Slots -> BOOLEAN] : MultiStepWith(out, checks)

MultiNext ==
    \/ MultiReset
    \/ MultiStep
    \/ DriverReturn

MultiSpec == MultiInit /\ [][MultiNext]_vars

---------------------------------------------------------------------------
(* simulate_multi called again and again with the state it returned, as the
   training loop does: each call runs one or two ticks *)

(* the ticks one call of the training loop runs *)
TicksPerCall == {1, 2}

(* the number of environments of these runs: enough for one tick to complete
   min_episodes_threshold episodes *)
ResumeSlotCounts == {5}

MultiResumeInit ==
    /\ EmptyCache
    /\ episode_budget = 0
    /\ is_eval = FALSE
    /\ dataset_limit = None
    /\ period = 0
    /\ \E n \in ResumeSlotCounts :
          /\ steps \in {n * k : k \in TicksPerCall}
          /\ FreshState(n)
          /\ \E p \in [1 .. n -> CurriculumProfiles] :
                /\ curriculum = [i \in 1 .. n |-> p[i].values]
                /\ limits = [i \in 1 .. n |-> p[i].limits]
    /\ episode_counter = 0
    /\ total_reward = 0
    /\ new_episode_length = <<>>
    /\ fired = FALSE
    /\ updates = 0
    /\ phases = <<>>
    /\ checked = <<>>

(* the next call: the state tuple is unpacked, and the locals of the
   function start afresh: total_reward = 0, episode_counter = 0 *)
MultiResume ==
    /\ dpc = "returned"
    /\ runs < MaxRuns
    /\ runs' = runs + 1
    /\ step0' = step
    /\ ticks' = 0
    /\ eval' = EvalNone
    /\ total_reward' = 0
    /\ episode_counter' = 0
    /\ new_episode_length' = <<>>
    /\ fired' = FALSE
    /\ updates' = 0
    /\ phases' = <<>>
    /\ checked' = <<>>
    /\ processed' = <<>>
    /\ dpc' = "top"
    /\ op' = "call"
    /\ UNCHANGED <<cache, inserted, arg, before, result, err, calls, samplerVars,
                   persistVars, returnVars, steps, episode_budget, dataset_limit, is_eval,
                   step, episode_count, done, episode_length, obs, agent_state,
                   last_reward, env_id, used, executed, since, newest, period,
                   curriculum, limits, everyVars>>

(* a tick of these runs, in which curriculum_coords_check gives every slot
   the same answer *)
MultiResumeStep ==
    \E out \in MultiJoint(Len(env_id)) :
        \E answer \in BOOLEAN : MultiStepWith(out, [i \in Slots |-> answer])

MultiResumeNext ==
    \/ MultiReset
    \/ MultiResumeStep
    \/ DriverReturn
    \/ MultiResume

MultiResumeSpec == MultiResumeInit /\ [][MultiResumeNext]_vars

---------------------------------------------------------------------------
(* isaac_simulate: one environment, every transition cached under the key 0 *)

(* the key of every add_to_cache, save_episodes and cache lookup *)
IsaacKey == 0

(* length += 1; length *= 1 - done with the `done` envs.step returns, which
   is not stacked into an array: the array of a first call is updated in
   place and stays an array, the number a finished episode left in `length`
   stays a number *)
IsaacNextLength(len, d) ==
    LET x == RMul(RAdd(len.v[1], ROne), IF d THEN RZero ELSE ROne)
    IN  IF len.scalar THEN LengthScalar(x) ELSE LengthArray(<<x>>)

(* "if done:" after the step: save, drop the log_ fields, then evict and log
   (train; the name time_elapsed is not bound in this function) or keep the
   evaluation averages; len is `length` as the counters left it *)
IsaacDone(c, dir, len, ev) ==
    IF ~Has(c, IsaacKey) \/ ~Has(Get(c, IsaacKey), "reward")
    THEN [cache |-> c, directory |-> dir, length |-> len, eval |-> ev,
          log |-> <<>>, err |-> "KeyError"]
    ELSE IF ~Has(Get(c, IsaacKey), "image")
    THEN [cache |-> c,
          directory |-> save_episodes(dir, <<(<<IsaacKey, Get(c, IsaacKey)>>)>>).directory,
          length |-> LengthScalar(RInt(Transitions(Get(c, IsaacKey)))), eval |-> ev,
          log |-> << <<"save", 1>> >>, err |-> "KeyError"]
    ELSE LET ep == Get(c, IsaacKey)
             saved == save_episodes(dir, <<(<<IsaacKey, ep>>)>>)
             n == Transitions(ep)
             c1 == Put(c, IsaacKey, NonLog(ep))
         IN  IF ~is_eval
             THEN LET erased == erase_over_episodes(c1, dataset_limit)
                  IN  [cache |-> erased.cache, directory |-> saved.directory,
                       length |-> LengthScalar(RInt(n)), eval |-> ev,
                       log |-> << <<"save", 1>>, <<"erase", 1>> >>,
                       err |-> IF erased.err # "none" THEN erased.err ELSE "NameError"]
             ELSE LET ev1 == EvalRecord(ev, n)
                  IN  [cache |-> c1, directory |-> saved.directory,
                       length |-> LengthScalar(Rat(ev1.total, ev1.n)), eval |-> ev1,
                       log |-> << <<"save", 1>> >>, err |-> "none"]

(* "if done:" at the top of the loop: reset and add_to_cache(cache, 0, t) *)
IsaacReset == \E ids \in {[i \in Slots |-> IsaacKey]} : ResetWith(ids)

(* the rest of the loop body *)
IsaacStepWith(o) ==
    /\ LoopGuard
    /\ StepReady
    /\ StepCounters(<<o>>)
    /\ \E added \in {add_to_cache(cache, IsaacKey, StepTransition(AgentAction, o))} :
          IF added.err # "none"
          THEN /\ cache' = added.cache
               /\ err' = added.err
               /\ dpc' = "raised"
               /\ processed' = <<>>
               /\ episode_length' = IsaacNextLength(episode_length, o.done)
               /\ UNCHANGED <<directory, eval>>
          ELSE IF ~o.done
          THEN /\ cache' = added.cache
               /\ err' = "none"
               /\ dpc' = "top"
               /\ processed' = <<>>
               /\ episode_length' = IsaacNextLength(episode_length, o.done)
               /\ UNCHANGED <<directory, eval>>
          ELSE \E r \in {IsaacDone(added.cache, directory,
                                   IsaacNextLength(episode_length, o.done), eval)} :
                  /\ cache' = r.cache
                  /\ directory' = r.directory
                  /\ episode_length' = r.length
                  /\ eval' = r.eval
                  /\ processed' = r.log
                  /\ err' = r.err
                  /\ dpc' = IF r.err = "none" THEN "top" ELSE "raised"
    /\ UNCHANGED <<inserted, arg, before, result, calls, samplerVars, loaded, written,
                   returnVars, steps, episode_budget, dataset_limit, is_eval, env_id, used,
                   runs, step0, newest, period, multiVars, everyVars>>

IsaacStep == \E out \in [Slots -> StepOutcomes] : IsaacStepWith(out[1])

(* isaac_simulate(agent, envs, cache, directory, logger, is_eval, limit,
   steps, state=None) on an empty cache *)
IsaacInit ==
    /\ EmptyCache
    /\ steps \in 1 .. MaxIsaacSteps
    /\ episode_budget = 0
    /\ \/ is_eval = FALSE /\ dataset_limit \in {None} \cup {Some(n) : n \in 1 .. MaxLimit}
       \/ is_eval = TRUE /\ dataset_limit = None
    /\ FreshState(1)
    /\ period = 0
    /\ MultiIdle

IsaacNext ==
    \/ IsaacReset
    \/ IsaacStep
    \/ DriverReturn

IsaacSpec == IsaacInit /\ [][IsaacNext]_vars

---------------------------------------------------------------------------
(* Properties of the driver *)

(* C10: every episode in the cache begins with its reset frame: first reward
   0.0 and first discount 1.0 *)
C10_SeedFrameFirst ==
    \A i \in DOMAIN cache :
        LET ep == cache[i][2]
        IN  /\ Has(ep, "reward") /\ Get(ep, "reward").items[1].v = 0
            /\ Has(ep, "discount") /\ Get(ep, "discount").items[1].v = 1

(* the same in train mode with a dataset limit *)
C10_SeedFrameFirstTrain == (~is_eval /\ dataset_limit # <<>>) => C10_SeedFrameFirst

(* the last item of a field of the episode cached under id *)
LastOf(id, key) ==
    LET items == Get(Get(cache, id), key).items
    IN  items[Len(items)]

(* the slot holds the observation of a reset, and the cache ends the slot's
   episode with the seed transition made of it *)
SeedRecorded(i) ==
    /\ obs[i] = ResetObs
    /\ since[i] = 0
    /\ Has(cache, env_id[i])
    /\ LastOf(env_id[i], "reward").v = 0
    /\ LastOf(env_id[i], "discount").v = 1
    /\ LastOf(env_id[i], "is_first").v = 1

(* C11: whenever the slots are stepped, every slot whose done flag is set has
   been reset since, and its seed transition (reward 0.0, discount 1.0) is
   the last thing recorded under the slot's current id *)
C11_ResetBeforeStep ==
    [][(ticks' = ticks + 1) => \A i \in Slots : done[i] => SeedRecorded(i)]_vars

C11_Witness ==
    /\ dpc = "ready"
    /\ ticks >= 1
    /\ \E i \in Slots, j \in Slots :
          /\ done[i] /\ SeedRecorded(i)
          /\ ~done[j] /\ since[j] >= 1

(* C19: after a run in evaluation mode the cache holds at most one episode,
   the one whose entry was created last *)
C19_EvalKeepsNewest ==
    (dpc = "returned" /\ is_eval) =>
        /\ Len(cache) <= 1
        /\ newest # 0 => (Len(cache) = 1 /\ cache[1][1] = newest)

C19_Witness ==
    /\ dpc = "returned" /\ is_eval
    /\ Cardinality(used) >= 3
    /\ Len(cache) = 1 /\ cache[1][1] = newest

(* C20: after every tick and in the returned state the episode-length
   component is an array over the slots: the steps of the slot's episode
   since its reset, 0 for a slot that reported done *)
C20_LengthPerSlot ==
    (ticks > 0 /\ dpc \in {"top", "returned"}) =>
        /\ ~episode_length.scalar
        /\ \A i \in Slots :
              episode_length.v[i] = RInt(IF done[i] THEN 0 ELSE since[i])
(* the smallest k with k * n >= x, for x >= 0 *)
CeilDiv(x, n) == (x + n - 1) \div n

(* the ticks the call in progress has to make *)
TicksDue == CeilDiv(IF steps > step0 THEN steps - step0 ELSE 0, Len(done))

RECURSIVE SumSeq(_, _)
SumSeq(q, i) == IF i > Len(q) THEN 0 ELSE q[i] + SumSeq(q, i + 1)

(* C17: with a step budget and no episode budget a call makes exactly
   ceil((S - step0) / N) ticks (none if step0 >= S): the loop goes on exactly
   while fewer have been made, and every tick steps all the slots *)
C17_TickCount ==
    /\ dpc \in {"top", "ready"} => (ticks <= TicksDue /\ (LoopGuard <=> ticks < TicksDue))
    /\ dpc = "returned" => ticks = TicksDue
    /\ \A i \in Slots, j \in Slots : executed[i] = executed[j]

C17_Witness ==
    /\ dpc = "returned"
    /\ runs = 2
    /\ Len(done) = 2 /\ steps = 3 /\ step0 = 1
    /\ ticks = 1
    /\ \E i \in Slots : done[i]

(* a call that finds its budget already used up makes no tick *)
C17_WitnessNoTick ==
    /\ dpc = "returned" /\ runs = 2 /\ step0 >= steps /\ ticks = 0

(* C18: the step component of every returned state lies in [0, N), and the
   environment steps executed over the k calls made so far are k * S plus
   that component: as many ticks as one run with the budget k * S *)
C18_ResumeAccounting ==
    dpc = "returned" =>
        /\ 0 <= step /\ step < Len(done)
        /\ SumSeq(executed, 1) = runs * steps + step
        /\ SumSeq(executed, 1) = Len(done) * CeilDiv(runs * steps, Len(done))

C18_Witness ==
    /\ dpc = "returned"
    /\ runs = 2
    /\ Len(done) = 2 /\ steps = 3
    /\ step = 0 /\ SumSeq(executed, 1) = 6
(* the ticks of a fresh run and the episodes each slot starts in them *)
ScenarioTicks == CeilDiv(steps, Len(done))
ScenarioEpisodes == CeilDiv(ScenarioTicks, period)

(* with ids handed out in slot order at every reset, the slot of an id *)
SlotOfId(id) == ((id - 1) % Len(done)) + 1

(* C16: after a fresh scripted run of ceil(S/N) ticks the cache holds exactly
   ceil(ceil(S/N)/L) episodes per slot, the completed ones with L transitions
   after the seed frame; for N=2, S=10, L=3 erase_over_episodes(cache, 4)
   then keeps exactly the two newest episodes, 4 transitions together *)
C16_Scenario ==
    /\ (dpc = "returned" /\ op = "return") =>
          /\ ticks = ScenarioTicks
          /\ \A i \in Slots :
                Cardinality({k \in DOMAIN cache : SlotOfId(cache[k][1]) = i})
                    = ScenarioEpisodes
          /\ \A k \in DOMAIN cache :
                Transitions(cache[k][2]) =
                    IF cache[k][1] <= Len(done) * (ScenarioEpisodes - 1)
                    THEN period
                    ELSE ScenarioTicks - (ScenarioEpisodes - 1) * period
    /\ (Erased /\ dpc = "returned" /\ Len(done) = 2 /\ steps = 10 /\ period = 3
           /\ arg = Some(4)) =>
          /\ Keys(before) = 1 .. 4
          /\ Keys(cache) = {3, 4}
          /\ RetainedSteps(cache) = 4
          /\ result = 4

C16_Witness ==
    /\ Erased /\ dpc = "returned" /\ Len(done) = 2 /\ steps = 10 /\ period = 3
    /\ arg = Some(4)
    /\ ticks = 5
    /\ Len(before) = 4 /\ Len(cache) = 2
    /\ Transitions(Get(before, 1)) = 3 /\ Transitions(Get(cache, 4)) = 2
---------------------------------------------------------------------------
(* Properties of simulate_multi *)

(* the positions of the tick at which a method is called *)
CalledAt(method) == {k \in DOMAIN phases : phases[k][1] = "call" /\ phases[k][2] = method}

(* C12: in every tick all pre_step submissions are complete before the
   shared simulation step is invoked, the shared step is invoked once and is
   complete before any post_step result is read, and nothing the tick
   started is left pending for the next tick *)
C12_TwoPhaseOrder ==
    (ticks > 0 /\ phases # <<>>) =>
        /\ Cardinality(CalledAt("simulate_steps")) = 1
        /\ \A i \in Slots : \A k \in CalledAt("simulate_steps") :
              /\ CompletedAt(phases, "pre_step", i) # 0
              /\ CompletedAt(phases, "pre_step", i) < k
        /\ CompletedAt(phases, "simulate_steps", 1) # 0
        /\ \A i \in Slots :
              CompletedAt(phases, "simulate_steps", 1) < CompletedAt(phases, "post_step", i)
        /\ \A k \in DOMAIN phases :
              phases[k][1] = "call" =>
                  CompletedAt(phases, phases[k][2], phases[k][3]) > k

RLeq(a, b) == ~RLess(b, a)

(* C13: no curriculum value of any slot ever decreases, and the orientation
   flag never goes back from true to false *)
C13_Ratchet ==
    [][\A i \in DOMAIN curriculum :
          /\ curriculum'[i].size_of_map >= curriculum[i].size_of_map
          /\ curriculum'[i].num_obstacles >= curriculum[i].num_obstacles
          /\ RLeq(curriculum[i].min_dist_between_objs, curriculum'[i].min_dist_between_objs)
          /\ curriculum'[i].episode_length >= curriculum[i].episode_length
          /\ curriculum[i].random_starting_orientation
                => curriculum'[i].random_starting_orientation]_vars

(* C14: a tick enters the curriculum update exactly when the episodes
   completed since the last update, this tick's included, are at least 5 and
   the reward gathered since the last update divided by that count is more
   than 6 *)
C14_UpdateCondition ==
    [][(ticks' = ticks + 1) =>
          LET completed == episode_counter + Cardinality({i \in Slots : done'[i]})
              gathered == total_reward + SumV(last_reward', 1)
          IN  fired' <=> (/\ completed >= min_episodes_threshold
                          /\ gathered > reward_threshold * completed)]_vars

(* the total reward of an archived episode *)
ArchivedReturn(archive) == SumV(Get(archive.data, "reward").items, 1)

(* C15: once 5 episodes (and fewer than 10) have completed in the run, each
   with total reward 10, exactly one curriculum update has fired; right after
   an update the reward accumulator and the episode counter are zero *)
C15_OneUpdate ==
    /\ (/\ Len(directory) >= min_episodes_threshold
        /\ Len(directory) < 2 * min_episodes_threshold
        /\ \A k \in DOMAIN directory : ArchivedReturn(directory[k][2]) = 10)
          => updates = 1
    /\ (op = "step" /\ fired) => (total_reward = 0 /\ episode_counter = 0)
---------------------------------------------------------------------------
(* Properties of the processing of finished episodes *)

(* slot i's episode was handed to save_episodes on the last tick *)
SavedOnTick(i) == \E k \in DOMAIN processed : processed[k] = <<"save", i>>

(* erase_over_episodes calls made for slot i on the last tick *)
ErasesOnTick(i) == Cardinality({k \in DOMAIN processed : processed[k] = <<"erase", i>>})

(* C21: after a tick in train mode with a dataset limit, the processing of
   the finished episodes has found the cache entry of every slot that
   reported done: no lookup raised KeyError and each of these episodes was
   saved. *)
C21_DoneEntryPresent ==
    (op = "step" /\ ~is_eval /\ dataset_limit # None)
        => (err # "KeyError" /\ \A i \in Slots : done[i] => SavedOnTick(i))
(* position of the call <<what, i>> in the processing of the last tick, 0 if
   it was not made *)
CallPos(what, i) ==
    IF \E k \in DOMAIN processed : processed[k] = <<what, i>>
    THEN CHOOSE k \in DOMAIN processed : processed[k] = <<what, i>>
    ELSE 0

(* C22: eviction belongs to train mode.  In evaluation mode no tick calls
   erase_over_episodes and every entry created so far is still in the cache
   until the loop has ended; in train mode a tick calls erase_over_episodes
   exactly once for each slot that reported done, after that slot's episode
   was saved, and never for a slot that did not. *)
C22_EvictionTrainOnly ==
    /\ (is_eval /\ dpc \in {"top", "ready"})
           => /\ \A k \in DOMAIN processed : processed[k][1] # "erase"
              /\ \A id \in used : Has(cache, id)
    /\ (~is_eval /\ op = "step")
           => \A i \in Slots :
                 IF done[i]
                 THEN /\ ErasesOnTick(i) = 1
                      /\ CallPos("save", i) > 0
                      /\ CallPos("save", i) < CallPos("erase", i)
                 ELSE ErasesOnTick(i) = 0
---------------------------------------------------------------------------
(* Properties of the curriculum update *)

(* the tick that is being taken enters the curriculum update *)
UpdateTick == op' = "step" /\ ticks' = ticks + 1 /\ fired'

(* min(old + inc, limit) when old < limit, old otherwise, for the rational
   minimum distance *)
RClamped(cur, inc, cap) == IF RLess(cur, cap) THEN RMin(RAdd(cur, inc), cap) ELSE cur

(* C23: a curriculum update completes for every slot, and it gives each slot
   min(old + increment, limit) when old < limit and old otherwise, from the
   slot's own value and limit: obstacles by 1, minimum distance by 0.5,
   episode length by 75 and, where the feasibility check did not pass, map
   size by 2. *)
C23_ClampedUpdate ==
    [][UpdateTick =>
          /\ err' # "UnboundLocalError"
          /\ \A i \in DOMAIN curriculum :
                /\ curriculum'[i].num_obstacles =
                       Clamped(curriculum[i].num_obstacles, 1,
                               limits[i].num_obstacles_limit)
                /\ curriculum'[i].min_dist_between_objs =
                       RClamped(curriculum[i].min_dist_between_objs, <<1, 2>>,
                                limits[i].distance_between_objects_limit)
                /\ curriculum'[i].episode_length =
                       Clamped(curriculum[i].episode_length, 75, limits[i].max_length)
                /\ (i \in DOMAIN checked' /\ ~checked'[i].answer)
                       => curriculum'[i].size_of_map =
                              Clamped(curriculum[i].size_of_map, 2, limits[i].map_limit)]_vars
(* C24: at a curriculum update that completes, the feasibility check of a
   slot is asked about the projected values (obstacles, minimum distance and
   map size after their increments); if it passes, map size gets one more
   increment of 2, clamped to map_limit; the orientation flag is set when
   the resulting map size is at least 20 and left as it was otherwise. *)
C24_FeasibleExtraIncrement ==
    [][(UpdateTick /\ err' = "none") =>
          \A i \in DOMAIN curriculum :
             LET projected == Clamped(curriculum[i].size_of_map, 2, limits[i].map_limit)
             IN  /\ checked'[i].obstacles =
                        Clamped(curriculum[i].num_obstacles, 1,
                                limits[i].num_obstacles_limit)
                 /\ checked'[i].min_dist =
                        RClamped(curriculum[i].min_dist_between_objs, <<1, 2>>,
                                 limits[i].distance_between_objects_limit)
                 /\ checked'[i].map_size = projected
                 /\ curriculum'[i].size_of_map =
                        IF checked'[i].answer
                        THEN Min(projected + 2, limits[i].map_limit)
                        ELSE projected
                 /\ curriculum'[i].random_starting_orientation =
                        IF curriculum'[i].size_of_map >= 20 THEN TRUE
                        ELSE curriculum[i].random_starting_orientation]_vars
---------------------------------------------------------------------------
(* Properties of the curriculum accumulators over several calls *)

(* C25: the curriculum accumulators carry over a pause and resume: the call
   that resumes simulate_multi with the returned state starts with the
   accumulated reward and the completed-episode count the previous call
   ended with. *)
C25_AccumulatorsCarryOver ==
    [][op' = "call" =>
          (total_reward' = total_reward /\ episode_counter' = episode_counter)]_vars
---------------------------------------------------------------------------
(* Properties of isaac_simulate *)

(* C26: every cache entry holds one episode: its first frame is the seed
   frame of a reset (is_first set), no other frame of the entry is a seed
   frame, and no frame follows one that ended the episode (discount 0). *)
C26_OneEpisodePerEntry ==
    \A i \in DOMAIN cache :
        LET ep == cache[i][2]
            first == Get(ep, "is_first").items
            disc == Get(ep, "discount").items
        IN  /\ first[1].v = 1
            /\ \A k \in 2 .. Len(first) : first[k].v = 0
            /\ \A k \in 1 .. Len(disc) - 1 : disc[k].v # 0
---------------------------------------------------------------------------
(* Properties of the windows of sample_episodes *)

(* the values of the frames start + 1 .. start + frames of a field of the
   cached episode e *)
FramesOf(e, key, start, frames) ==
    LET items == Get(cache[e][2], key).items
    IN  [t \in 1 .. frames |-> items[start + t].v]

(* the frames of the slices j .. Len(slices) of a field, one after another *)
RECURSIVE ConcatSlices(_, _)
ConcatSlices(key, j) ==
    IF j > Len(slices) THEN <<>>
    ELSE FramesOf(slices[j][1], key, slices[j][2], slices[j][3])
             \o ConcatSlices(key, j + 1)

ValuesOf(v) == [t \in DOMAIN v.items |-> v.items[t].v]

(* C27: a window yielded is made of slices of single episodes, in draw
   order: each slice is a run of consecutive frames of an episode with at
   least 2 frames, the first starts at an index in [0, total-2], every later
   one at 0, every slice but the last runs to the end of its episode, and
   every field of the window other than is_first is the concatenation of
   these runs. *)
C27_WindowOfSlices ==
    spc = "yielded" =>
        /\ Len(slices) >= 1
        /\ \A j \in DOMAIN slices :
              LET total == Total(cache[slices[j][1]][2])
                  start == slices[j][2]
                  frames == slices[j][3]
              IN  /\ total >= 2
                  /\ frames >= 1
                  /\ start + frames <= total
                  /\ (j = 1) => start \in 0 .. total - 2
                  /\ (j > 1) => start = 0
                  /\ (j < Len(slices)) => start + frames = total
        /\ \A i \in DOMAIN ret :
              ret[i][1] # "is_first"
                  => ValuesOf(ret[i][2]) = ConcatSlices(ret[i][1], 1)

(* a window of two slices, the first from the middle of its episode, the
   last cut before the end of its episode, with a one-frame episode in the
   cache *)
C27_Witness ==
    /\ spc = "yielded"
    /\ Len(slices) >= 2
    /\ slices[1][2] > 0
    /\ slices[Len(slices)][3] < Total(cache[slices[Len(slices)][1]][2])
    /\ \E i \in DOMAIN cache : Total(cache[i][2]) < 2
(* the cache holds an episode the sampler can use: 2 frames or more *)
HasUsableEpisode == \E i \in DOMAIN cache : Total(cache[i][2]) >= 2

(* C28: under fair draws, whenever the cache holds an episode with 2 or more
   frames the sampler goes on to yield its next window: from a state with n
   windows yielded it reaches a state with n + 1. *)
C28_EventuallyYields ==
    \A n \in 0 .. MaxYields - 1 :
        (yielded = n /\ spc \in {"start", "yielded", "loop"} /\ HasUsableEpisode)
            ~> (yielded = n + 1)

(* C29: no step of the sampler changes the cache. *)
C29_CacheUntouched == [][spc' # "idle" => cache' = cache]_vars

(* the episodes of the cache do not all have the same fields *)
Heterogeneous ==
    \E i \in DOMAIN cache, j \in DOMAIN cache : Keys(cache[i][2]) # Keys(cache[j][2])

(* C30: on a cache whose episodes have different field sets the sampler
   raises nothing, whichever episode is drawn first and whichever are
   stitched on. *)
C30_HeterogeneousTolerated == Heterogeneous => (err = "none" /\ spc # "raised")
---------------------------------------------------------------------------
(* Properties of load_episodes *)

(* the names of the readable files of the archive, largest name first or
   smallest name first *)
RECURSIVE ReadableInOrder(_, _)
ReadableInOrder(S, descending) ==
    IF S = {} THEN <<>>
    ELSE LET m == CHOOSE x \in S :
                     \A y \in S \ {x} : IF descending THEN NameLess(y, x) ELSE NameLess(x, y)
         IN  (IF Get(directory, m).ok THEN <<m>> ELSE <<>>)
                 \o ReadableInOrder(S \ {m}, descending)

(* transitions of the first k files of names: frames - 1 for each *)
RECURSIVE PrefixTransitions(_, _)
PrefixTransitions(names, k) ==
    IF k = 0 THEN 0
    ELSE PrefixTransitions(names, k - 1)
             + Len(Get(Get(directory, names[k]).data, "reward").items) - 1

(* the shortest prefix of names, of at least `least` files, whose transitions
   reach n; all of names if none does *)
ShortestPrefix(names, n, least) ==
    LET reach == {k \in least .. Len(names) : PrefixTransitions(names, k) >= n}
    IN  IF reach = {} THEN Len(names) ELSE CHOOSE k \in reach : \A l \in reach : k <= l

(* the result load_episodes owes for the first k files of names *)
EpisodesOf(names, k, reverse) ==
    [i \in 1 .. k |-> <<LoadKey(names[i], reverse), Get(directory, names[i]).data>>]

(* C31 as stated: load_episodes returns the episodes of the shortest prefix
   of the readable files, in descending name order by default, whose
   transitions reach the limit, and of every readable file when the limit is
   None or never reached; unreadable files are skipped. *)
C31_ShortestPrefix ==
    (op = "load_episodes" /\ err = "none") =>
        LET limit == arg[1]
            names == ReadableInOrder(Keys(directory), arg[2])
            k == IF limit = None THEN Len(names) ELSE ShortestPrefix(names, limit[1], 0)
        IN  loaded = EpisodesOf(names, k, arg[2])

(* C31 amended: the same with a limit of 0 treated like None: every readable
   file is returned; with a limit above 0 the prefix holds at least one
   file. *)
C31_ShortestPrefixPositive ==
    (op = "load_episodes" /\ err = "none") =>
        LET limit == arg[1]
            names == ReadableInOrder(Keys(directory), arg[2])
            k == IF limit = None \/ limit = Some(0) THEN Len(names)
                 ELSE ShortestPrefix(names, limit[1], 1)
        IN  loaded = EpisodesOf(names, k, arg[2])

(* a load in the default order that stops at the limit before the last
   readable file *)
C31_Witness ==
    /\ op = "load_episodes" /\ err = "none"
    /\ arg[1] # None /\ arg[1] # Some(0) /\ arg[2] = TRUE
    /\ Len(loaded) >= 1
    /\ Len(loaded) < Len(ReadableInOrder(Keys(directory), TRUE))
---------------------------------------------------------------------------
(* Properties of the lambda-return *)

(* R[t] = (reward[t] + discount[t] * next_value[t] * (1 - lambda))
          + discount[t] * lambda * R[t+1], R[T] = bootstrap *)
RECURSIVE LambdaRecurrence(_, _)
LambdaRecurrence(t, b) ==
    IF t > Len(reward) THEN BootOf(b)
    ELSE RAdd(RAdd(reward[t][b],
                   RMul(RMul(pcont[t][b],
                             IF t < Len(value) THEN value[t + 1][b] ELSE BootOf(b)),
                        RSub(ROne, lambda_))),
              RMul(RMul(pcont[t][b], lambda_), LambdaRecurrence(t + 1, b)))

(* reward, value and pcont have the same shape *)
SameShapes == Len(value) = Len(reward)

(* C32: for inputs of one shape lambda_return returns, in forward time
   order, the sequence R of the recurrence with R[T] = bootstrap (0 when
   none is given), whether the time axis is 0 or another axis. *)
C32_Recurrence ==
    (lpc # "input" /\ SameShapes) =>
        /\ lpc = "returned"
        /\ \A b \in Batch : \A t \in 1 .. Len(reward) :
              returns[b][t] = LambdaRecurrence(t, b)

(* C33: when value does not have the shape of reward, lambda_return ends
   with an AssertionError. *)
C33_ShapeAssertion ==
    (lpc # "input" /\ ~SameShapes) => (lpc = "raised" /\ err = "AssertionError")
---------------------------------------------------------------------------
(* Properties of convert *)

(* C34: convert maps floating values to float32, signed integers to int32,
   uint8 to uint8 and booleans to bool; it raises NotImplementedError for
   every other element type; and applied to its own result it returns that
   result unchanged, dtype and value. *)
C34_ConvertTypes ==
    op = "convert" =>
        /\ before.dt \in {"float16", "float32", "float64"}
               => (err = "none" /\ result.dt = "float32")
        /\ before.dt \in {"int8", "int16", "int32", "int64"}
               => (err = "none" /\ result.dt = "int32")
        /\ before.dt \in {"uint8", "bool"} => (err = "none" /\ result.dt = before.dt)
        /\ before.dt \in {"uint16", "uint32", "uint64", "complex128", "str", "object"}
               => err = "NotImplementedError"
        /\ (calls = 2 /\ err = "none") => result = before

(* a 64-bit integer converted twice *)
C34_Witness ==
    /\ op = "convert" /\ calls = 2 /\ err = "none"
    /\ arg = Val("int64", 3)
    /\ result = Val("int32", 3)

---------------------------------------------------------------------------
(* Properties of add_to_cache under a failing convert *)

(* the last step was an add_to_cache that raised *)
InsertRaised == op' = "add_to_cache" /\ err' # "none"

(* C35: add_to_cache is all-or-nothing: when convert raises for a field of
   the transition, the cache is exactly what it was before the call: no new
   empty episode entry, and no field of an existing episode extended. *)
C35_AllOrNothing == [][InsertRaised => cache' = cache]_vars

---------------------------------------------------------------------------
(* Properties of erase_over_episodes applied again *)

(* C37: erase_over_episodes is idempotent: after a call has returned, a
   second call with the same budget leaves the cache as the first call left
   it and returns the count the first call returned. *)
C37_EraseIdempotent ==
    Erased =>
        erase_over_episodes(cache, arg) =
            [cache |-> cache, ret |-> result, err |-> "none"]

(* a call with a budget that evicted an episode and kept one with
   transitions *)
C37_Witness ==
    /\ Erased
    /\ Truthy(arg)
    /\ Len(cache) >= 1
    /\ Len(cache) < Len(before)
    /\ result >= 1

---------------------------------------------------------------------------
(* Every *)

(* int(x / n) for integers x and n > 0: the quotient truncated towards 0 *)
IntOfQuotient(x, n) == IF x >= 0 THEN x \div n ELSE -((-x) \div n)

(* a call that moves _last to the step it was given *)
EveryCallFromStep(e, l, s) ==
    IF e = 0 THEN [ret |-> 0, last |-> l]
    ELSE IF l = None THEN [ret |-> 1, last |-> Some(s)]
    ELSE [ret |-> IntOfQuotient(s - l[1], e), last |-> Some(s)]

(* Every.__call__(step) on an object with _every = e and _last = l: the
   value returned and _last afterwards *)
EveryCall(e, l, s) ==
    IF e = 0 THEN [ret |-> 0, last |-> l]
    ELSE IF l = None THEN [ret |-> 1, last |-> Some(s)]
    ELSE LET count == IntOfQuotient(s - l[1], e)
         IN  [ret |-> count, last |-> Some(l[1] + e * count)]

(* Every(every): any period of 0 .. MaxEvery, no call made yet *)
EveryInit ==
    /\ cache = <<>>
    /\ inserted = [id \in Ids |-> 0]
    /\ op = "init"
    /\ arg = None
    /\ before = <<>>
    /\ result = 0
    /\ err = "none"
    /\ calls = 0
    /\ SamplerIdle
    /\ PersistIdle
    /\ ReturnIdle
    /\ DriverIdle
    /\ every \in 0 .. MaxEvery
    /\ last_ = None
    /\ history = <<>>

(* one call of the object with any step *)
EveryStep ==
    /\ Len(history) < MaxEveryCalls
    /\ \E s \in 0 .. MaxEveryStep :
          \E r \in {EveryCall(every, last_, s)} :
              /\ last_' = r.last
              /\ history' = Append(history, [step |-> s, count |-> r.ret, last |-> r.last])
    /\ UNCHANGED <<cacheVars, samplerVars, persistVars, returnVars, driverVars, every>>

EverySpec == EveryInit /\ [][EveryStep]_vars

---------------------------------------------------------------------------
(* Properties of Every *)

(* the steps passed so far never went down *)
NonDecreasing == \A k \in 1 .. Len(history) - 1 : history[k].step <= history[k + 1].step

RECURSIVE SumCounts(_)
SumCounts(k) == IF k = 0 THEN 0 ELSE SumCounts(k - 1) + history[k].count

(* _last when call k started *)
LastBefore(k) == history[k - 1].last[1]

(* C39: with every > 0 the first call returns 1; while the steps passed are
   non-decreasing, each later call returns floor((step - _last) / every) and
   advances _last by every times that count, after every call
   0 <= step - _last < every, and the counts returned so far sum to
   1 + floor((latest step - first step) / every); with every = 0 each call
   returns 0. *)
C39_EveryCounts ==
    LET n == Len(history)
    IN  /\ every = 0 => \A k \in 1 .. n : history[k].count = 0
        /\ (every > 0 /\ n >= 1) => history[1].count = 1
        /\ (every > 0 /\ n >= 1 /\ NonDecreasing) =>
              /\ \A k \in 2 .. n :
                    /\ history[k].count = (history[k].step - LastBefore(k)) \div every
                    /\ history[k].last[1] = LastBefore(k) + every * history[k].count
              /\ \A k \in 1 .. n :
                    /\ 0 <= history[k].step - history[k].last[1]
                    /\ history[k].step - history[k].last[1] < every
              /\ SumCounts(n) = 1 + (history[n].step - history[1].step) \div every

(* three calls with every = 2 and growing steps, the last one returning 2 *)
C39_Witness ==
    /\ every = 2
    /\ Len(history) >= 3
    /\ NonDecreasing
    /\ history[Len(history)].count = 2
    /\ history[Len(history)].step > history[Len(history)].last[1]

---------------------------------------------------------------------------
(* Properties of the two budgets *)

(* (steps > 0 and step < steps) or (episodes > 0 and episode < episodes) *)
TickDue ==
    \/ (steps > 0 /\ step < steps)
    \/ (episode_budget > 0 /\ episode_count < episode_budget)

(* the components of the simulation state other than the two counters *)
StateRest == <<done, episode_length, obs, agent_state, last_reward>>

(* C36: a tick (its reset and its step) is executed exactly when
   (steps > 0 and step < steps) or (episodes > 0 and episode < episodes), and
   the call returns when that is false: with both budgets given only once
   both are exhausted, with neither given without any tick and with the
   incoming state and counters, with only an episode budget at the first
   tick boundary where the episodes completed reach the budget. *)
C36_LoopGuard ==
    [][/\ (op' = "reset" \/ ticks' = ticks + 1) => TickDue
       /\ op' = "return" =>
             /\ ~TickDue
             /\ (steps > 0 /\ episode_budget > 0) =>
                    (step >= steps /\ episode_count >= episode_budget)
             /\ (steps = 0 /\ episode_budget = 0) =>
                    (ticks = 0 /\ step' = step /\ episode_count' = episode_count
                     /\ UNCHANGED StateRest)
             /\ (steps = 0 /\ episode_budget > 0) =>
                    (episode_count >= episode_budget
                     /\ (op = "step" => episode_count
                                          - Cardinality({i \in Slots : done[i]})
                                        < episode_budget))]_vars

(* both budgets given: the step budget ran out first and the call went on
   until the episode budget was used up too *)
C36_Witness ==
    /\ dpc = "returned"
    /\ steps = 1 /\ episode_budget = 2
    /\ ticks >= 3
    /\ episode_count = 0

(* only an episode budget: the call went on past any number of steps *)
C36_WitnessEpisodesOnly ==
    /\ dpc = "returned"
    /\ steps = 0 /\ episode_budget = 2
    /\ ticks >= 3

(* no budget: a call that returned at once *)
C36_WitnessNoBudget ==
    /\ dpc = "returned"
    /\ steps = 0 /\ episode_budget = 0
    /\ ticks = 0 /\ step = 0 /\ episode_count = 0

---------------------------------------------------------------------------
(* Properties of the evaluation summary *)

(* C38: in one evaluation call with the episode budget E the summary
   (eval_return, eval_length, eval_episodes and a logger write) is written at
   most once: at the first finished episode that brings the episodes
   finished in this call to at least E, and never before. *)
C38_SummaryOnce ==
    is_eval =>
        /\ eval.summaries <= 1
        /\ eval.summaries = 1 => eval.at = Max(episode_budget, 1)
        /\ eval.summaries = 0 => (eval.n < episode_budget \/ eval.n = 0)

(* an episode finished after the summary was written *)
C38_Witness ==
    /\ is_eval
    /\ episode_budget = 2
    /\ eval.summaries = 1
    /\ eval.n >= 3

===========================================================================
